---- MODULE Spec2Model ----
(***************************************************************************)
(* A model of the per-call voice bridge of call-assistant: the Twilio      *)
(* audio handler (two bounded queues, output pump, mark queue), the        *)
(* OpenAI audio processor (streaming policy, interrupt timing), the        *)
(* modular assistant's receive-loop handlers and the function call         *)
(* processor.                                                              *)
(*                                                                         *)
(* Time is counted in sixths of a millisecond, because track_input_audio   *)
(* adds len * 1000 / 48 = len * 125 / 6 ms per payload: every duration of  *)
(* the program is then a whole number of sixths.                           *)
(***************************************************************************)
EXTENDS Integers, Sequences, FiniteSets, TLC

(***************************************************************************)
(* Bounds of the model.  The queue depth and the two accumulation caps are *)
(* the program's configuration values scaled down so that TLC reaches the  *)
(* full queue and the cap breach within a few events.                      *)
(***************************************************************************)
MaxQueue == 2
MaxChunksPerResponse == 2
MaxMemoryBytes == 3
WindowSizeChunks == 2
ImmediateThresholdBytes == 2
MaxDeltas == 3
MaxMedia == 3
MaxSpeech == 2
MaxTicks == 1
MaxCalls == 2
MaxArgDeltas == 3
MaxDisconnects == 2
MaxConnects == 2
MaxInvalidFrames == 1
SessionCreationTimeoutSecs == 2

TicksPerMs == 6
TickStep == 300

NoneItem == "none"
NoneTime == -1
Items == {"item_A", "item_B"}
Modes == {"individual", "windowed", "accumulate"}
CallIds == {"call_1", "call_2"}
NoCallId == ""
NoName == "none"

(***************************************************************************)
(* Sequence helpers.                                                       *)
(***************************************************************************)
RECURSIVE Join(_)
Join(chunks) ==
    IF chunks = <<>> THEN <<>> ELSE Head(chunks) \o Join(Tail(chunks))

Min(a, b) == IF a <= b THEN a ELSE b

(***************************************************************************)
(* base64.  A text is a sequence of sextets 0..63, with 64 for the '='     *)
(* padding character.                                                      *)
(***************************************************************************)
Pad == 64

RECURSIVE b64encode(_)
b64encode(bytes) ==
    IF Len(bytes) = 0 THEN <<>>
    ELSE IF Len(bytes) = 1 THEN
        << bytes[1] \div 4, (bytes[1] % 4) * 16, Pad, Pad >>
    ELSE IF Len(bytes) = 2 THEN
        LET n == bytes[1] * 256 + bytes[2]
        IN  << n \div 1024, (n \div 16) % 64, (n % 16) * 4, Pad >>
    ELSE
        LET n == bytes[1] * 65536 + bytes[2] * 256 + bytes[3]
        IN  << n \div 262144, (n \div 4096) % 64, (n \div 64) % 64, n % 64 >>
            \o b64encode(SubSeq(bytes, 4, Len(bytes)))

RECURSIVE b64decode(_)
b64decode(text) ==
    IF Len(text) < 4 THEN <<>>
    ELSE
        LET rest == b64decode(SubSeq(text, 5, Len(text)))
        IN  IF text[3] = Pad THEN
                << text[1] * 4 + text[2] \div 16 >> \o rest
            ELSE IF text[4] = Pad THEN
                LET v == (text[1] * 4096 + text[2] * 64 + text[3]) \div 4
                IN  << v \div 256, v % 256 >> \o rest
            ELSE
                LET n == text[1] * 262144 + text[2] * 4096 + text[3] * 64 + text[4]
                IN  << n \div 65536, (n \div 256) % 256, n % 256 >> \o rest

encode_audio(audio_data) == b64encode(audio_data)


(***************************************************************************)
(* State.                                                                  *)
(*   state, is_connected   assistant state and LLM connection flag         *)
(*   conv_task, recv_pc    the start_conversation task and the position of *)
(*                         the LLM receive loop inside a handler           *)
(*   ap                    the AudioProcessor's fields                     *)
(*   ah                    the TwilioAudioHandler's fields                 *)
(*   pump_pc               position of _process_output_audio               *)
(*   twilio_out, llm_out   frames written to the two sockets, in order     *)
(*   now                   wall clock, in sixths of a millisecond          *)
(*   fc                    the FunctionCallProcessor's fields              *)
(*   tasks                 the background tool tasks, by call_id           *)
(* History variables (not program state):                                  *)
(*   deltas_rx             audio deltas handed to add_audio_chunk          *)
(*   forwarded             payloads the processor passed to send_audio     *)
(*   done_item             item finalized by the last response.done        *)
(*   n_media, n_speech, n_ticks  counters that bound the inputs            *)
(*   intr                  record of the last speech_started handling      *)
(*   arg_rx                function-call argument deltas received          *)
(*   parsed                argument strings handed to json.loads           *)
(* Teardown:                                                               *)
(*   websocket             the connection manager's LLM socket             *)
(*   late_recv             a recv() begun while connected is still pending *)
(*                         although is_connected has been cleared          *)
(*   disc_pc               position of a running disconnect()              *)
(*   n_disc                disconnect() invocations that returned (history)*)
(*   registry              the manager's dictionaries that hold the call   *)
(*   twilio_ws             the telephony socket                            *)
(*   errors                messages passed to on_error (history)           *)
(*   cleanup_pc            position of the manager's cleanup_session       *)
(* Session initialization:                                                 *)
(*   sm                    the SessionManager and the position of connect()*)
(*   frames_rx             telephony frames read, in order (history)       *)
(*   conv_task2            the task of a further start frame, if any       *)
(*   hs                    position of the handler's handle_speech_started, *)
(*                         and the mark accounting since the last clear    *)
(*   ed                    the EventDispatcher: its handler lists, and the  *)
(*                         position and record of a running dispatch_event *)
(*   input_ended           _audio_input_loop has returned                  *)
(***************************************************************************)
VARIABLES state, is_connected, conv_task, recv_pc, ap, ah, pump_pc,
          twilio_out, llm_out, now, fc, tasks,
          deltas_rx, forwarded, done_item, n_media, n_speech, n_ticks,
          intr, arg_rx, parsed,
          websocket, late_recv, disc_pc, n_disc, registry, twilio_ws, errors,
          cleanup_pc,
          sm,
          frames_rx,
          conv_task2,
          hs,
          ed,
          input_ended

vars == << state, is_connected, conv_task, recv_pc, ap, ah, pump_pc,
           twilio_out, llm_out, now, fc, tasks,
           deltas_rx, forwarded, done_item, n_media, n_speech, n_ticks,
           intr, arg_rx, parsed,
           websocket, late_recv, disc_pc, n_disc, registry, twilio_ws, errors,
           cleanup_pc,
           sm,
           frames_rx,
           conv_task2,
           hs,
           ed,
           input_ended >>

sessionVars == << state, is_connected, conv_task >>
closeVars == << disc_pc, n_disc, registry, twilio_ws, errors, cleanup_pc >>
teardownVars == << websocket, late_recv, closeVars >>
toolVars == << fc, tasks, arg_rx, parsed >>
audioHist == << deltas_rx, forwarded, done_item >>
inputHist == << n_media, n_speech, n_ticks, intr >>

(***************************************************************************)
(* AudioProcessor (openai_voice/audio_processor.py).  Each operation is an *)
(* operator from the processor's fields to the new fields and the payloads *)
(* it passed to on_audio_ready / on_memory_limit_reached, in order.        *)
(***************************************************************************)
AudioProcessorInit(mode) ==
    [ current_audio_chunks |-> <<>>,
      current_response_id |-> NoneItem,
      current_audio_size |-> 0,
      streaming_mode |-> mode,
      window_chunks |-> <<>>,
      window_timer_task |-> FALSE,
      window_start_time |-> NoneTime,
      total_audio_duration_ms |-> 0,
      last_assistant_item |-> NoneItem,
      response_start_timestamp |-> NoneTime ]

\* set_streaming_mode called with a mode and no keyword parameters: the mode
\* is stored and an active window timer is cancelled; the window's chunks
\* and its start time stay as they are.
set_streaming_mode(p, mode) ==
    [ p EXCEPT !.streaming_mode = mode,
               !.window_timer_task = FALSE ]

reset_for_new_response(p, response_id, t) ==
    [ p EXCEPT !.window_timer_task = FALSE,
               !.current_audio_chunks = <<>>,
               !.window_chunks = <<>>,
               !.current_response_id = response_id,
               !.current_audio_size = 0,
               !.response_start_timestamp = t,
               !.window_start_time = NoneTime ]

send_window_chunks(p) ==
    IF p.window_chunks = <<>>
    THEN [ ap |-> p, out |-> <<>> ]
    ELSE [ ap |-> [ p EXCEPT !.window_chunks = <<>>,
                             !.window_start_time = NoneTime,
                             !.window_timer_task = FALSE ],
           out |-> << Join(p.window_chunks) >> ]

\* _handle_audio_memory_limit: the chunks retained so far are sent as one
\* payload; the processor's fields are left as they are.
handle_audio_memory_limit(current_chunks) ==
    IF current_chunks # <<>> THEN << Join(current_chunks) >> ELSE <<>>

add_audio_chunk(p0, audio_data, item_id, t) ==
    LET p == IF item_id # p0.last_assistant_item
             THEN reset_for_new_response(
                      [ p0 EXCEPT !.last_assistant_item = item_id ], item_id, t)
             ELSE p0
        audio_size == Len(audio_data)
    IN  IF p.streaming_mode = "accumulate" THEN
            IF p.current_audio_size + audio_size > MaxMemoryBytes THEN
                [ ap |-> p, out |-> handle_audio_memory_limit(p.current_audio_chunks) ]
            ELSE IF Len(p.current_audio_chunks) >= MaxChunksPerResponse THEN
                [ ap |-> p, out |-> handle_audio_memory_limit(p.current_audio_chunks) ]
            ELSE
                [ ap |-> [ p EXCEPT !.current_audio_chunks = Append(@, audio_data),
                                    !.current_audio_size = @ + audio_size ],
                  out |-> <<>> ]
        ELSE IF p.streaming_mode = "individual" THEN
            [ ap |-> p, out |-> << audio_data >> ]
        ELSE
            LET w == [ p EXCEPT !.window_chunks = Append(@, audio_data),
                                !.window_start_time =
                                    IF @ = NoneTime THEN t ELSE @,
                                !.window_timer_task =
                                    IF p.window_start_time = NoneTime THEN TRUE ELSE @ ]
                should_send_window ==
                    \/ Len(w.window_chunks) >= WindowSizeChunks
                    \/ audio_size >= ImmediateThresholdBytes
            IN  IF should_send_window THEN send_window_chunks(w)
                ELSE [ ap |-> w, out |-> <<>> ]

clear_accumulation(p) ==
    [ p EXCEPT !.window_timer_task = FALSE,
               !.current_audio_chunks = <<>>,
               !.window_chunks = <<>>,
               !.current_response_id = NoneItem,
               !.current_audio_size = 0,
               !.window_start_time = NoneTime ]

\* finalize_response passing the retained chunks on one by one.
finalize_response_unjoined(p0) ==
    LET w == IF p0.streaming_mode = "windowed" /\ p0.window_chunks # <<>>
             THEN send_window_chunks(p0)
             ELSE [ ap |-> p0, out |-> <<>> ]
        p == w.ap
    IN  IF p.streaming_mode = "accumulate" /\ p.current_audio_chunks # <<>>
        THEN [ ap |-> clear_accumulation(p),
               out |-> w.out \o p.current_audio_chunks ]
        ELSE [ ap |-> clear_accumulation(p), out |-> w.out ]

finalize_response(p0) ==
    LET w == IF p0.streaming_mode = "windowed" /\ p0.window_chunks # <<>>
             THEN send_window_chunks(p0)
             ELSE [ ap |-> p0, out |-> <<>> ]
        p == w.ap
    IN  IF p.streaming_mode = "accumulate" /\ p.current_audio_chunks # <<>>
        THEN [ ap |-> clear_accumulation(p),
               out |-> w.out \o << Join(p.current_audio_chunks) >> ]
        ELSE [ ap |-> clear_accumulation(p), out |-> w.out ]

\* 16-bit samples at 24 per millisecond, times 1000: len / 2 / 24 * 1000 ms,
\* that is len * 125 sixths of a millisecond.
track_input_audio(p, audio_data) ==
    [ p EXCEPT !.total_audio_duration_ms = @ + Len(audio_data) * 125 ]

Max(a, b) == IF a > b THEN a ELSE b

\* The larger of the two durations instead of the smaller.
calculate_interrupt_timing_max(p, t) ==
    IF p.response_start_timestamp = NoneTime THEN 0
    ELSE Max(t - p.response_start_timestamp, p.total_audio_duration_ms) \div TicksPerMs

\* int(min(elapsed, total)) in whole milliseconds.
calculate_interrupt_timing(p, t) ==
    IF p.response_start_timestamp = NoneTime THEN 0
    ELSE Min(t - p.response_start_timestamp, p.total_audio_duration_ms) \div TicksPerMs

reset_input_timing(p) ==
    [ p EXCEPT !.total_audio_duration_ms = 0 ]

(***************************************************************************)
(* Envelopes on the LLM socket and frames on the telephony socket.  `id`   *)
(* is the item_id or call_id the envelope carries; `val` its audio,        *)
(* audio_end_ms or output.  A response.create carries no id on the wire:   *)
(* its `id` here records which handler wrote it.                           *)
(***************************************************************************)
Envelope(type, id, val) == [ type |-> type, id |-> id, val |-> val ]

Frame(event, payload) == [ event |-> event, payload |-> payload ]

(***************************************************************************)
(* FunctionCallProcessor (openai_voice/function_call_processor.py).        *)
(* Argument strings are sequences of characters; pending_function_calls is *)
(* a function from the pending call_ids to their entries.                  *)
(***************************************************************************)
RegisteredTools == {"lookup"}

FunctionCallProcessorInit(non_blocking) ==
    [ pending_function_calls |-> <<>>,
      non_blocking_tools_calling |-> non_blocking ]

\* The delta goes in front of the accumulated string.
handle_function_call_delta_prepend(f, call_id, delta, name) ==
    IF call_id = NoCallId THEN f
    ELSE LET p0 == f.pending_function_calls
             p1 == IF call_id \in DOMAIN p0 THEN p0
                   ELSE p0 @@ (call_id :> [ arguments |-> <<>>, name |-> NoName,
                                            call_id |-> call_id ])
             p2 == [ p1 EXCEPT ![call_id].arguments = delta \o @ ]
             p3 == IF name # NoName THEN [ p2 EXCEPT ![call_id].name = name ]
                   ELSE p2
         IN  [ f EXCEPT !.pending_function_calls = p3 ]

handle_function_call_delta(f, call_id, delta, name) ==
    IF call_id = NoCallId THEN f
    ELSE LET p0 == f.pending_function_calls
             p1 == IF call_id \in DOMAIN p0 THEN p0
                   ELSE p0 @@ (call_id :> [ arguments |-> <<>>, name |-> NoName,
                                            call_id |-> call_id ])
             p2 == [ p1 EXCEPT ![call_id].arguments = @ \o delta ]
             p3 == IF name # NoName THEN [ p2 EXCEPT ![call_id].name = name ]
                   ELSE p2
         IN  [ f EXCEPT !.pending_function_calls = p3 ]

\* json.loads on an argument string over the characters { and }: the one
\* document that parses is {}.
json_loads_ok(arguments_str) == arguments_str = << "{", "}" >>

\* The function_call_output envelope for a call; `output` is the status
\* the JSON output carries ("executing"), "result" for another result
\* value, or "error".
FunctionCallOutput(call_id, output) ==
    Envelope("function_call_output", call_id, output)

ResponseCreate(call_id) == Envelope("response.create", call_id, <<>>)

\* Every tool call is awaited by the receive loop.
ToolTask_awaited(call_id, pc, inline, outcome) ==
    [ call_id |-> call_id, pc |-> pc, inline |-> TRUE, outcome |-> outcome,
      tracked |-> FALSE, deltas_before |-> Len(deltas_rx) ]

\* A tool execution: inline when it is awaited by the receive loop,
\* tracked when execute_tool added its task to active_tool_tasks and
\* cancel_all_tasks has not cleared the set since.
\* deltas_before is history: the audio deltas received before it began.
ToolTask(call_id, pc, inline, outcome) ==
    [ call_id |-> call_id, pc |-> pc, inline |-> inline, outcome |-> outcome,
      tracked |-> ~inline, deltas_before |-> Len(deltas_rx) ]

(***************************************************************************)
(* TwilioAudioHandler (audio_handlers/twilio_handler.py).                  *)
(***************************************************************************)
NoneSid == "none"
ShutdownSignal == << -1 >>

AudioHandlerInit ==
    [ input_queue |-> <<>>,
      output_queue |-> <<>>,
      stream_sid |-> NoneSid,
      latest_media_timestamp |-> 0,
      mark_queue |-> <<>>,
      last_assistant_item |-> NoneItem,
      response_start_timestamp |-> NoneTime ]

\* A queue whose full() never answers yes.
full_never(queue) == FALSE

\* asyncio.Queue.full(): a maxsize of 0 or less means no limit.
full(queue) == IF MaxQueue <= 0 THEN FALSE ELSE Len(queue) >= MaxQueue

send_audio(h, audio_data) ==
    IF audio_data = <<>> THEN h
    ELSE IF ~full(h.output_queue)
         THEN [ h EXCEPT !.output_queue = Append(@, audio_data) ]
         ELSE h

RECURSIVE send_all(_, _)
send_all(h, payloads) ==
    IF payloads = <<>> THEN h
    ELSE send_all(send_audio(h, Head(payloads)), Tail(payloads))

\* add_input_audio putting the decoded payload at the head of the queue.
add_input_audio_front(h, payload) ==
    IF payload = <<>> THEN h
    ELSE LET mulaw_bytes == b64decode(payload)
         IN  IF ~full(h.input_queue)
             THEN [ h EXCEPT !.input_queue = << mulaw_bytes >> \o @ ]
             ELSE h

add_input_audio(h, payload) ==
    IF payload = <<>> THEN h
    ELSE LET mulaw_bytes == b64decode(payload)
         IN  IF ~full(h.input_queue)
             THEN [ h EXCEPT !.input_queue = Append(@, mulaw_bytes) ]
             ELSE h

clear_audio_buffer(h) ==
    [ h EXCEPT !.input_queue = <<>>, !.output_queue = <<>> ]


(***************************************************************************)
(* Inputs.  The k-th audio delta of a session carries bytes that no other  *)
(* delta carries (2k-1, or 2k-1 and 2k), so that every delivered byte      *)
(* names the delta it came from.                                           *)
(***************************************************************************)
DeltaBytes(k, n) == IF n = 1 THEN << 2 * k - 1 >> ELSE << 2 * k - 1, 2 * k >>

MediaBytes(n) == IF n = 1 THEN << 200 >> ELSE << 200, 201 >>

\* The record of a speech_started handling: what held when the event
\* arrived, and what the handling wrote.
\* The dictionaries of the connection manager that hold a call.
\* SessionManager.__init__, with the position of the connect() in progress
\* and, as history, what that connect() has met: i is the index of the
\* loop of _wait_for_session_created, elapsed the seconds it has waited,
\* created_rx whether session.created was read from the socket this
\* connect() opened, n the number of connect() calls.
SessionManagerInit ==
    [ session_created |-> FALSE, pc |-> "idle", i |-> 0, elapsed |-> 0,
      created_rx |-> FALSE, n |-> 0, outcome |-> "none" ]

\* What the provider can send while the session is initialized; the last
\* one is a frame json.loads rejects.
InitEvents == { "session.created", "error", "session.updated", "not json" }

(***************************************************************************)
(* EventDispatcher (openai_voice/event_dispatcher.py).  A handler is named *)
(* by an identifier; an invocation of it returns or raises an Exception.   *)
(* dispatch_event awaits each handler, so each invocation is a step.       *)
(***************************************************************************)
MaxHandlers == 3
MaxDispatches == 2

HandlerIds == { "h1", "h2" }
EventTypes == { "audio_delta", "error" }

\* log: the handlers dispatch_event has invoked for the running (or last)
\* event, in order; expected: the handlers registered for it when the
\* dispatch began; raised: exceptions the handlers raised during it;
\* propagated: whether dispatch_event let one out to its caller.
EventDispatcherInit ==
    [ handlers |-> [ t \in EventTypes |-> <<>> ],
      global_handlers |-> <<>>,
      pc |-> "idle", event |-> "none", k |-> 0,
      log |-> <<>>, expected |-> <<>>, raised |-> 0, propagated |-> FALSE,
      n |-> 0 ]

register_handler(d, event_type, handler) ==
    [ d EXCEPT !.handlers[event_type] = Append(@, handler) ]

register_global_handler(d, handler) ==
    [ d EXCEPT !.global_handlers = Append(@, handler) ]

\* The handler list dispatch_event is iterating, and the end of the
\* iteration over it.
dispatch_list(d) ==
    IF d.pc = "specific" THEN d.handlers[d.event] ELSE d.global_handlers

\* dispatch_event moves on past exhausted lists: from the handlers of the
\* type to the global handlers, and from those to its return.
RECURSIVE dispatch_advance(_)
dispatch_advance(d) ==
    IF d.pc = "idle" \/ d.k <= Len(dispatch_list(d)) THEN d
    ELSE IF d.pc = "specific"
         THEN dispatch_advance([ d EXCEPT !.pc = "global", !.k = 1 ])
         ELSE [ d EXCEPT !.pc = "idle", !.k = 0 ]

dispatch_begin(d, event_type) ==
    dispatch_advance(
        [ d EXCEPT !.pc = "specific", !.event = event_type, !.k = 1,
                   !.log = <<>>, !.raised = 0, !.propagated = FALSE,
                   !.expected = d.handlers[event_type] \o d.global_handlers,
                   !.n = @ + 1 ])

\* One handler invocation that lets the handler's exception out of
\* dispatch_event.
dispatch_handler_uncaught(d, raises) ==
    LET h == dispatch_list(d)[d.k]
        d1 == [ d EXCEPT !.log = Append(@, h) ]
    IN  IF raises
        THEN [ d1 EXCEPT !.raised = @ + 1, !.propagated = TRUE,
                         !.pc = "idle", !.k = 0 ]
        ELSE dispatch_advance([ d1 EXCEPT !.k = @ + 1 ])

\* One handler invocation: await handler.handle_event inside try / except
\* Exception, then the next handler.
dispatch_handler(d, raises) ==
    LET h == dispatch_list(d)[d.k]
        d1 == [ d EXCEPT !.log = Append(@, h),
                         !.raised = IF raises THEN @ + 1 ELSE @ ]
    IN  dispatch_advance([ d1 EXCEPT !.k = @ + 1 ])

\* The handler's handle_speech_started is not running; no clear frame has
\* been written and no mark event has removed a mark.
HandlerSpeechInit ==
    [ pc |-> "idle", clear_at |-> 0, popped |-> 0, n_marks |-> 0 ]

Registries == { "active_connections", "audio_handlers", "voice_assistants" }

\* What the LLM peer may close the socket with.
CloseReasons == { "1011 (keepalive ping timeout)", "1001 (going away)" }

NoInterrupt ==
    [ phase |-> "none", in_flight |-> FALSE, item |-> NoneItem, input_ms |-> 0,
      start |-> 0, at |-> 0, tw_before |-> 0, ll_before |-> 0,
      deltas_before |-> 0, sent |-> FALSE ]

InitWith(non_blocking) ==
    /\ state = "disconnected"
    /\ is_connected = FALSE
    /\ conv_task = "none"
    /\ recv_pc = "idle"
    /\ ap \in { AudioProcessorInit(m) : m \in Modes }
    /\ ah = AudioHandlerInit
    /\ pump_pc = "get"
    /\ twilio_out = <<>>
    /\ llm_out = <<>>
    /\ now = TicksPerMs
    /\ fc = FunctionCallProcessorInit(non_blocking)
    /\ tasks = <<>>
    /\ deltas_rx = <<>>
    /\ forwarded = <<>>
    /\ done_item = NoneItem
    /\ n_media = 0
    /\ n_speech = 0
    /\ n_ticks = 0
    /\ intr = NoInterrupt
    /\ arg_rx = <<>>
    /\ parsed = <<>>
    /\ websocket = "none"
    /\ late_recv = FALSE
    /\ disc_pc = "idle"
    /\ n_disc = 0
    /\ registry = Registries
    /\ twilio_ws = "open"
    /\ errors = <<>>
    /\ cleanup_pc = "none"
    /\ sm = SessionManagerInit
    /\ frames_rx = <<>>
    /\ conv_task2 = "none"
    /\ hs = HandlerSpeechInit
    /\ ed = EventDispatcherInit
    /\ input_ended = FALSE

\* create_twilio_voice_assistant constructs the assistant with
\* non_blocking_tools_calling=True.
Init == InitWith(TRUE)

\* Either tool mode of the constructor.
InitTools == \E non_blocking \in BOOLEAN : InitWith(non_blocking)

(***************************************************************************)
(* Session lifecycle (modular_assistant.py, twilio_manager.py).            *)
(***************************************************************************)
\* connect(), the path on which the socket opens and session.created
\* arrives: session.update is written and the state becomes Connected.
\* Each set_state that changes the state has on_state_change write a
\* notification frame to the telephony socket.
Connect ==
    /\ state = "disconnected"
    /\ state' = "connected"
    /\ is_connected' = TRUE
    /\ llm_out' = Append(llm_out, Envelope("session.update", "", <<>>))
    /\ twilio_out' = twilio_out \o << Frame("state_change", "connecting"),
                                     Frame("state_change", "connected") >>
    /\ websocket' = "open"
    /\ sm' = [ sm EXCEPT !.session_created = TRUE, !.created_rx = TRUE,
                         !.outcome = "connected" ]
    /\ UNCHANGED << input_ended, ed, hs, conv_task2, frames_rx, late_recv, closeVars, conv_task, recv_pc, ap, ah, pump_pc, now,
                    toolVars, audioHist, inputHist >>

\* The telephony read loop on a start frame: handle_twilio_event binds the
\* stream and the manager creates the start_conversation task.  Twilio
\* sends one start frame per stream.
TwilioStart ==
    /\ twilio_ws = "open"
    /\ state # "disconnected"
    /\ conv_task = "none"
    /\ ah' = [ ah EXCEPT !.stream_sid = "MZ",
                         !.latest_media_timestamp = 0,
                         !.last_assistant_item = NoneItem,
                         !.response_start_timestamp = NoneTime ]
    /\ conv_task' = "created"
    /\ UNCHANGED << input_ended, ed, hs, conv_task2, frames_rx, sm, teardownVars, state, is_connected, recv_pc, ap, pump_pc, twilio_out,
                    llm_out, now, toolVars, audioHist, inputHist >>

\* start_conversation: the initial message and response.create are
\* written, then the audio input loop and the receive loop run.  The task
\* ends with the exception when the state is not Connected or the write on
\* the socket raises.
StartConversation ==
    /\ conv_task = "created"
    /\ IF state # "connected" \/ websocket # "open"
       THEN /\ conv_task' = "failed"
            /\ UNCHANGED llm_out
       ELSE /\ conv_task' = "running"
            /\ llm_out' = llm_out \o
                   << Envelope("conversation.item.create", "", "message"),
                      Envelope("response.create", "", <<>>) >>
    /\ UNCHANGED << input_ended, ed, hs, conv_task2, frames_rx, sm, teardownVars, state, is_connected, recv_pc, ap, ah, pump_pc, twilio_out,
                    now, toolVars, audioHist, inputHist >>

\* A further start frame on the same stream: handle_twilio_event binds the
\* stream again and the manager creates another start_conversation task
\* for the same assistant.
TwilioStartAgain ==
    /\ twilio_ws = "open"
    /\ state # "disconnected"
    /\ conv_task # "none"
    /\ conv_task2 = "none"
    /\ ah' = [ ah EXCEPT !.stream_sid = "MZ",
                         !.latest_media_timestamp = 0,
                         !.last_assistant_item = NoneItem,
                         !.response_start_timestamp = NoneTime ]
    /\ conv_task2' = "created"
    /\ UNCHANGED << input_ended, ed, hs, frames_rx, sm, teardownVars, sessionVars, recv_pc, ap, pump_pc, twilio_out,
                    llm_out, now, toolVars, audioHist, inputHist >>

\* start_conversation of that task: as for the first one.
StartConversationAgain ==
    /\ conv_task2 = "created"
    /\ IF state # "connected" \/ websocket # "open"
       THEN /\ conv_task2' = "failed"
            /\ UNCHANGED llm_out
       ELSE /\ conv_task2' = "running"
            /\ llm_out' = llm_out \o
                   << Envelope("conversation.item.create", "", "message"),
                      Envelope("response.create", "", <<>>) >>
    /\ UNCHANGED << input_ended, ed, hs, frames_rx, sm, teardownVars, sessionVars, recv_pc, ap, ah, pump_pc, twilio_out,
                    now, toolVars, audioHist, inputHist >>

\* The receive loop is between two messages.
RecvReady == conv_task = "running" /\ is_connected /\ recv_pc = "idle"

\* The receive loop is inside a recv() it began before disconnect() cleared
\* is_connected: `while self.is_connected` is evaluated again only after
\* that recv() has returned and its message has been handled.
RecvLate == conv_task = "running" /\ late_recv /\ recv_pc = "idle"

\* Such a recv() returns a message only while the socket is closing.
RecvLateMessage == RecvLate /\ websocket = "closing"

(***************************************************************************)
(* Model audio: response.output_audio.delta and response.done, as routed   *)
(* by _handle_openai_message to the audio processor; on_audio_ready is the *)
(* Twilio handler's send_audio.                                            *)
(***************************************************************************)
OpenAIAudioDelta(item_id, n) ==
    /\ RecvReady \/ RecvLateMessage
    /\ late_recv' = FALSE
    /\ Len(deltas_rx) < MaxDeltas
    /\ LET data == DeltaBytes(Len(deltas_rx) + 1, n)
           audio_data == b64decode(b64encode(data))
           r == add_audio_chunk(ap, audio_data, item_id, now)
       IN  /\ ap' = r.ap
           /\ ah' = send_all(ah, r.out)
           /\ forwarded' = forwarded \o r.out
           /\ deltas_rx' = Append(deltas_rx,
                                [ item |-> item_id, data |-> data, t |-> now ])
    /\ done_item' = NoneItem
    /\ UNCHANGED << input_ended, ed, hs, conv_task2, frames_rx, sm, websocket, closeVars, sessionVars, recv_pc, pump_pc, twilio_out, llm_out, now,
                    toolVars, inputHist >>

ResponseDone ==
    /\ RecvReady \/ RecvLateMessage
    /\ late_recv' = FALSE
    /\ LET r == finalize_response(ap)
       IN  /\ ap' = r.ap
           /\ ah' = send_all(ah, r.out)
           /\ forwarded' = forwarded \o r.out
    /\ done_item' = IF deltas_rx = <<>> THEN NoneItem
                    ELSE deltas_rx[Len(deltas_rx)].item
    /\ UNCHANGED << input_ended, ed, hs, conv_task2, frames_rx, sm, websocket, closeVars, sessionVars, recv_pc, pump_pc, twilio_out, llm_out, now,
                    toolVars, deltas_rx, inputHist >>

\* _window_timeout_handler after its sleep: the window is sent and the
\* timer task ends.
WindowTimeout ==
    /\ ap.window_timer_task
    /\ LET r == send_window_chunks(ap)
       IN  /\ ap' = [ r.ap EXCEPT !.window_timer_task = FALSE ]
           /\ ah' = send_all(ah, r.out)
           /\ forwarded' = forwarded \o r.out
    /\ UNCHANGED << input_ended, ed, hs, conv_task2, frames_rx, sm, teardownVars, sessionVars, recv_pc, pump_pc, twilio_out, llm_out, now,
                    toolVars, deltas_rx, done_item, inputHist >>

\* set_audio_streaming_mode: a synchronous call on the assistant, possible
\* at any time between two steps of the event loop.
SetStreamingMode(mode) ==
    /\ ap' = set_streaming_mode(ap, mode)
    /\ ap' # ap
    /\ UNCHANGED << input_ended, ed, hs, conv_task2, frames_rx, sm, teardownVars, sessionVars, recv_pc, ah, pump_pc, twilio_out, llm_out, now,
                    toolVars, audioHist, inputHist >>

(***************************************************************************)
(* The output pump _process_output_audio: one payload is taken and framed  *)
(* as media, then _send_mark writes the mark frame and appends to the mark *)
(* queue.  Each await of a socket write is a step of its own.  A write     *)
(* that raises, as on a closed socket, ends the loop.                      *)
(***************************************************************************)
PumpMedia ==
    /\ pump_pc = "get"
    /\ ah.output_queue # <<>>
    /\ LET audio_data == Head(ah.output_queue)
       IN  /\ ah' = [ ah EXCEPT !.output_queue = Tail(@) ]
           /\ IF audio_data = ShutdownSignal
              THEN pump_pc' = "stopped" /\ UNCHANGED twilio_out
              ELSE IF ah.stream_sid # NoneSid
              THEN IF twilio_ws = "open"
                   THEN /\ twilio_out' = Append(twilio_out,
                               Frame("media", encode_audio(audio_data)))
                        /\ pump_pc' = "mark"
                   ELSE pump_pc' = "stopped" /\ UNCHANGED twilio_out
              ELSE UNCHANGED << pump_pc, twilio_out >>
    /\ UNCHANGED << input_ended, ed, hs, conv_task2, frames_rx, sm, teardownVars, sessionVars, recv_pc, ap, llm_out, now, toolVars,
                    audioHist, inputHist >>

PumpSendMark ==
    /\ pump_pc = "mark"
    /\ IF ah.stream_sid # NoneSid
       THEN IF twilio_ws = "open"
            THEN /\ twilio_out' = Append(twilio_out, Frame("mark", <<>>))
                 /\ pump_pc' = "append"
            ELSE pump_pc' = "stopped" /\ UNCHANGED twilio_out
       ELSE /\ pump_pc' = "get"
            /\ UNCHANGED twilio_out
    /\ UNCHANGED << input_ended, ed, hs, conv_task2, frames_rx, sm, teardownVars, sessionVars, recv_pc, ap, ah, llm_out, now, toolVars,
                    audioHist, inputHist >>

PumpAppendMark ==
    /\ pump_pc = "append"
    /\ ah' = [ ah EXCEPT !.mark_queue = Append(@, "responsePart") ]
    /\ pump_pc' = "get"
    /\ UNCHANGED << input_ended, ed, hs, conv_task2, frames_rx, sm, teardownVars, sessionVars, recv_pc, ap, twilio_out, llm_out, now,
                    toolVars, audioHist, inputHist >>

OutputPump == PumpMedia \/ PumpSendMark \/ PumpAppendMark

(***************************************************************************)
(* The handler's mark bookkeeping (twilio_handler.py): set_response_timing, *)
(* handle_speech_started with its await of the clear frame's write as a    *)
(* step boundary, and the telephony side's mark events.                    *)
(***************************************************************************)
\* Mark frames written on the telephony socket after the last clear frame.
MarksSent ==
    Len(SelectSeq(SubSeq(twilio_out, hs.clear_at + 1, Len(twilio_out)),
                  LAMBDA f : f.event = "mark"))

\* set_response_timing(item_id, start_timestamp).
SetResponseTiming(item_id) ==
    /\ ah' = [ ah EXCEPT !.last_assistant_item = item_id,
                         !.response_start_timestamp = now ]
    /\ ah' # ah
    /\ UNCHANGED << input_ended, ed, hs, conv_task2, frames_rx, sm, teardownVars, sessionVars, recv_pc, ap, pump_pc,
                    twilio_out, llm_out, now, toolVars, audioHist, inputHist >>

\* handle_speech_started, called in the receive loop's task for a
\* speech_started event, up to the return of the clear frame's write; with
\* no response timing set it returns at once.
HandlerSpeechStarted ==
    /\ RecvReady
    /\ hs.pc = "idle"
    /\ n_speech < MaxSpeech
    /\ twilio_ws = "open"
    /\ n_speech' = n_speech + 1
    /\ IF ah.last_assistant_item # NoneItem
          /\ ah.response_start_timestamp # NoneTime
       THEN /\ twilio_out' = Append(twilio_out, Frame("clear", <<>>))
            /\ hs' = [ hs EXCEPT !.pc = "clear_sent",
                                 !.clear_at = Len(twilio_out) + 1,
                                 !.popped = 0 ]
            /\ recv_pc' = "handle_speech_started"
       ELSE UNCHANGED << twilio_out, hs, recv_pc >>
    /\ UNCHANGED << input_ended, ed, conv_task2, frames_rx, sm, teardownVars, sessionVars, ap, ah, pump_pc,
                    llm_out, now, toolVars, audioHist, n_media, n_ticks, intr >>

\* handle_speech_started after that write: the mark queue is cleared and
\* the response timing reset.
HandlerSpeechCleared ==
    /\ hs.pc = "clear_sent"
    /\ ah' = [ ah EXCEPT !.mark_queue = <<>>,
                         !.last_assistant_item = NoneItem,
                         !.response_start_timestamp = NoneTime ]
    /\ hs' = [ hs EXCEPT !.pc = "idle" ]
    /\ recv_pc' = "idle"
    /\ UNCHANGED << input_ended, ed, conv_task2, frames_rx, sm, teardownVars, sessionVars, ap, pump_pc,
                    twilio_out, llm_out, now, toolVars, audioHist, inputHist >>

\* handle_twilio_event('mark'): one entry is popped when there is one.
twilio_mark(h) ==
    IF h.mark_queue # <<>>
    THEN [ h EXCEPT !.mark_queue = Tail(@) ]
    ELSE h

\* The telephony read loop on a mark event: the far end has played up to
\* a mark frame it received, so it sends at most one per mark frame.
TwilioMark ==
    /\ twilio_ws = "open"
    /\ ah.stream_sid # NoneSid
    /\ hs.n_marks < Len(SelectSeq(twilio_out, LAMBDA f : f.event = "mark"))
    /\ ah' = twilio_mark(ah)
    /\ hs' = [ hs EXCEPT !.n_marks = @ + 1,
                         !.popped = IF MarksSent - @ > 0 THEN @ + 1 ELSE @ ]
    /\ UNCHANGED << input_ended, ed, conv_task2, frames_rx, sm, teardownVars, sessionVars, recv_pc, ap, pump_pc,
                    twilio_out, llm_out, now, toolVars, audioHist, inputHist >>

(***************************************************************************)
(* The inbound audio path: Twilio media frames to the handler's input      *)
(* queue, and _audio_input_loop from the queue to the LLM socket.          *)
(***************************************************************************)
\* The telephony read loop on a media frame (handle_twilio_event); Twilio
\* sends media only after the start frame.
TwilioMedia(n) ==
    /\ twilio_ws = "open"
    /\ ah.stream_sid # NoneSid
    /\ n_media < MaxMedia
    /\ ah' = add_input_audio(
                 [ ah EXCEPT !.latest_media_timestamp = 20 * (n_media + 1) ],
                 b64encode(MediaBytes(n)))
    /\ n_media' = n_media + 1
    /\ UNCHANGED << input_ended, ed, hs, conv_task2, frames_rx, sm, teardownVars, sessionVars, recv_pc, ap, pump_pc, twilio_out, llm_out,
                    now, toolVars, audioHist, n_speech, n_ticks, intr >>

\* One turn of _audio_input_loop with a payload waiting: receive_audio
\* takes it and send_audio_data tracks its duration and writes the
\* input_audio_buffer.append envelope.
AudioInputLoop ==
    /\ conv_task = "running"
    /\ is_connected
    /\ websocket = "open"
    /\ state \in { "connected", "listening" }
    /\ ah.input_queue # <<>>
    /\ LET audio_data == Head(ah.input_queue)
       IN  /\ ah' = [ ah EXCEPT !.input_queue = Tail(@) ]
           /\ IF audio_data # <<>>
              THEN /\ ap' = track_input_audio(ap, audio_data)
                   /\ llm_out' = Append(llm_out,
                          Envelope("input_audio_buffer.append", "",
                                   b64encode(audio_data)))
              ELSE UNCHANGED << ap, llm_out >>
    /\ UNCHANGED << input_ended, ed, hs, conv_task2, frames_rx, sm, teardownVars, sessionVars, recv_pc, pump_pc, twilio_out, now, toolVars,
                    audioHist, inputHist >>

\* The same turn taken by the _audio_input_loop of the further
\* start_conversation task: both loops take from the one inbound queue.
AudioInputLoopAgain ==
    /\ conv_task2 = "running"
    /\ is_connected
    /\ state \in { "connected", "listening" }
    /\ ah.input_queue # <<>>
    /\ LET audio_data == Head(ah.input_queue)
       IN  /\ ah' = [ ah EXCEPT !.input_queue = Tail(@) ]
           /\ IF audio_data # <<>>
              THEN /\ ap' = track_input_audio(ap, audio_data)
                   /\ llm_out' = Append(llm_out,
                          Envelope("input_audio_buffer.append", "",
                                   b64encode(audio_data)))
              ELSE UNCHANGED << ap, llm_out >>
    /\ UNCHANGED << input_ended, ed, hs, conv_task, conv_task2, frames_rx, sm, teardownVars, state, is_connected, recv_pc, pump_pc, twilio_out, now, toolVars,
                    audioHist, inputHist >>

\* int() of the decimal text of a media timestamp.
RECURSIVE parse_int(_)
parse_int(digits) ==
    IF digits = <<>> THEN 0
    ELSE 10 * parse_int(SubSeq(digits, 1, Len(digits) - 1)) + digits[Len(digits)]

\* Media frames as Twilio sends them: the timestamp as decimal text, the
\* payload as base64 text.  The last payload is base64 that no encoder
\* writes: its second character carries bits that the decoder drops.
MediaTimestamp(k) == << 2 * k, 0 >>
MediaPayloads == { b64encode(<< 65 >>), b64encode(<< 65, 66 >>),
                   << 16, 17, Pad, Pad >> }

\* Text frames that json.loads rejects.
InvalidFrames == { << "{" >>, << "hello" >> }

InvalidFramesRead == Len(SelectSeq(frames_rx, LAMBDA f : f.event = "invalid"))

\* The telephony read loop on a media frame, for any payload and
\* timestamp: handle_twilio_event sets latest_media_timestamp and calls
\* add_input_audio when the payload is not empty.
TwilioMediaFrame(payload, timestamp) ==
    /\ twilio_ws = "open"
    /\ ah.stream_sid # NoneSid
    /\ n_media < MaxMedia
    /\ ah' = IF payload # <<>>
             THEN add_input_audio(
                      [ ah EXCEPT !.latest_media_timestamp = parse_int(timestamp) ],
                      payload)
             ELSE ah
    /\ n_media' = n_media + 1
    /\ frames_rx' = Append(frames_rx,
                      [ event |-> "media", payload |-> payload,
                        timestamp |-> timestamp,
                        queued |-> payload # <<>> /\ ~full(ah.input_queue) ])
    /\ UNCHANGED << input_ended, ed, hs, conv_task2, sm, teardownVars, sessionVars, recv_pc, ap, pump_pc,
                    twilio_out, llm_out, now, toolVars, audioHist, n_speech,
                    n_ticks, intr >>

\* The read loop gives up on a frame json.loads rejects: the error reaches
\* the outer except, which disconnects the call.
TwilioInvalidFrame_fatal(text) ==
    /\ twilio_ws = "open"
    /\ InvalidFramesRead < MaxInvalidFrames
    /\ ~json_loads_ok(text)
    /\ frames_rx' = Append(frames_rx,
                      [ event |-> "invalid", payload |-> text,
                        timestamp |-> <<>>, queued |-> FALSE ])
    /\ cleanup_pc' = "requested"
    /\ UNCHANGED << input_ended, ed, hs, conv_task2, sm, websocket, late_recv, disc_pc, n_disc, registry,
                    twilio_ws, errors, sessionVars, recv_pc, ap, ah, pump_pc,
                    twilio_out, llm_out, now, toolVars, audioHist, inputHist >>

\* The telephony read loop on a frame json.loads rejects: the inner except
\* logs JSONDecodeError and continues with the next frame.
TwilioInvalidFrame(text) ==
    /\ twilio_ws = "open"
    /\ InvalidFramesRead < MaxInvalidFrames
    /\ ~json_loads_ok(text)
    /\ frames_rx' = Append(frames_rx,
                      [ event |-> "invalid", payload |-> text,
                        timestamp |-> <<>>, queued |-> FALSE ])
    /\ UNCHANGED << input_ended, ed, hs, conv_task2, sm, teardownVars, sessionVars, recv_pc, ap, ah, pump_pc,
                    twilio_out, llm_out, now, toolVars, audioHist, inputHist >>

\* Wall-clock time passes.
Tick ==
    /\ n_ticks < MaxTicks
    /\ now' = now + TickStep
    /\ n_ticks' = n_ticks + 1
    /\ UNCHANGED << input_ended, ed, hs, conv_task2, frames_rx, sm, teardownVars, sessionVars, recv_pc, ap, ah, pump_pc, twilio_out, llm_out,
                    toolVars, audioHist, n_media, n_speech, intr >>

(***************************************************************************)
(* Barge-in: input_audio_buffer.speech_started.  _handle_openai_message    *)
(* first routes the event (the audio processor's handle_event resets the   *)
(* input timing), then _handle_direct_events runs.  The handling yields at *)
(* each socket write, so it is three steps.                                *)
(***************************************************************************)
handle_speech_started(h) ==
    IF h.last_assistant_item # NoneItem /\ h.response_start_timestamp # NoneTime
    THEN [ ah |-> [ h EXCEPT !.mark_queue = <<>>,
                             !.last_assistant_item = NoneItem,
                             !.response_start_timestamp = NoneTime ],
           out |-> << Frame("clear", <<>>) >> ]
    ELSE [ ah |-> h, out |-> <<>> ]

\* Routing, set_state(LISTENING), and on_speech_started up to its write of
\* the notification frame on the telephony socket.
SpeechStartedRoute ==
    /\ RecvReady
    /\ n_speech < MaxSpeech
    /\ ap' = reset_input_timing(ap)
    /\ state' = "listening"
    /\ twilio_out' = twilio_out
           \o (IF state # "listening"
               THEN << Frame("state_change", "listening") >> ELSE <<>>)
           \o << Frame("speech_started", <<>>) >>
    /\ recv_pc' = "on_speech_started"
    /\ n_speech' = n_speech + 1
    /\ intr' = [ phase |-> "handling",
                 in_flight |-> ap.current_response_id # NoneItem,
                 item |-> ap.current_response_id,
                 input_ms |-> ap.total_audio_duration_ms,
                 start |-> now,
                 at |-> now,
                 tw_before |-> Len(twilio_out),
                 ll_before |-> Len(llm_out),
                 deltas_before |-> Len(deltas_rx),
                 sent |-> FALSE ]
    /\ UNCHANGED << input_ended, ed, hs, conv_task2, frames_rx, sm, teardownVars, is_connected, conv_task, ah, pump_pc, llm_out, now,
                    toolVars, audioHist, n_media, n_ticks >>

\* The barge-in handling with set_state(LISTENING) repeated after the
\* handler's write.
SpeechStartedInterrupt_listening ==
    /\ recv_pc = "on_speech_started"
    /\ state' = "listening"
    /\ recv_pc' = "idle"
    /\ intr' = [ intr EXCEPT !.phase = "done", !.at = now ]
    /\ UNCHANGED << input_ended, ed, hs, conv_task2, frames_rx, sm, teardownVars, is_connected, conv_task,
                    ap, ah, pump_pc, twilio_out, llm_out, now, toolVars, audioHist,
                    n_media, n_speech, n_ticks >>

\* The rest of on_speech_started (the handler's handle_speech_started),
\* then interrupt_response up to its write of the truncate envelope.  The
\* write needs the connection: SpeechStartedInterruptRaises is the other
\* case.
SpeechStartedInterrupt ==
    /\ recv_pc = "on_speech_started"
    /\ LET r == handle_speech_started(ah)
           audio_end_ms == calculate_interrupt_timing(ap, now)
       IN  /\ (ap.last_assistant_item # NoneItem /\ audio_end_ms > 0)
                => (is_connected /\ websocket = "open")
           /\ ah' = r.ah
           /\ twilio_out' = twilio_out \o r.out
           /\ IF ap.last_assistant_item # NoneItem /\ audio_end_ms > 0
              THEN /\ llm_out' = Append(llm_out,
                         Envelope("conversation.item.truncate",
                                  ap.last_assistant_item, audio_end_ms))
                   /\ recv_pc' = "truncate_sent"
                   /\ intr' = [ intr EXCEPT !.sent = TRUE, !.at = now ]
              ELSE /\ recv_pc' = "idle"
                   /\ intr' = [ intr EXCEPT !.phase = "done", !.at = now ]
                   /\ UNCHANGED llm_out
    /\ UNCHANGED << input_ended, ed, hs, conv_task2, frames_rx, sm, teardownVars, sessionVars, ap, pump_pc, now, toolVars, audioHist,
                    n_media, n_speech, n_ticks >>

\* interrupt_response after the truncate envelope is written.
SpeechStartedClear ==
    /\ recv_pc = "truncate_sent"
    /\ ap' = clear_accumulation(ap)
    /\ ah' = clear_audio_buffer(ah)
    /\ recv_pc' = "idle"
    /\ intr' = [ intr EXCEPT !.phase = "done" ]
    /\ UNCHANGED << input_ended, ed, hs, conv_task2, frames_rx, sm, teardownVars, sessionVars, pump_pc, twilio_out, llm_out, now, toolVars,
                    audioHist, n_media, n_speech, n_ticks >>

(***************************************************************************)
(* Function calls: response.function_call_arguments.delta / .done as       *)
(* routed to the FunctionCallProcessor, and the tool executions.  The      *)
(* provider names each call by a call_id of its own: no event for a        *)
(* call_id follows that call_id's done.                                    *)
(***************************************************************************)
\* The outcomes that go through on_tool_error.
ErrorOutcomes == { "unknown", "invalid_json", "raise" }

DoneCalls == { tasks[i].call_id : i \in 1..Len(tasks) }

ArgDeltas == { << "{" >>, << "}" >> }

FunctionCallDelta(call_id, delta, name) ==
    /\ RecvReady \/ RecvLateMessage
    /\ late_recv' = FALSE
    /\ Len(arg_rx) < MaxArgDeltas
    /\ call_id \notin DoneCalls
    /\ fc' = handle_function_call_delta(fc, call_id, delta, name)
    /\ arg_rx' = Append(arg_rx, [ call_id |-> call_id, delta |-> delta ])
    /\ UNCHANGED << input_ended, ed, hs, conv_task2, frames_rx, sm, websocket, closeVars, sessionVars, recv_pc, ap, ah, pump_pc, twilio_out, llm_out,
                    now, tasks, parsed, audioHist, inputHist >>

\* handle_function_call_done, with execute_tool up to the creation of the
\* background task (non-blocking) or to the awaited tool call (blocking),
\* and with on_tool_error up to its sleep.
FunctionCallDone(call_id, name, arguments) ==
    /\ RecvReady
    /\ Len(tasks) < MaxCalls
    /\ call_id \notin DoneCalls
    /\ LET pend == call_id \in DOMAIN fc.pending_function_calls
           accumulated_data == fc.pending_function_calls[call_id]
           arguments_str == IF pend THEN accumulated_data.arguments ELSE arguments
           function_name == IF pend /\ name = NoName THEN accumulated_data.name
                            ELSE name
           remaining == DOMAIN fc.pending_function_calls \ { call_id }
       IN  /\ fc' = [ fc EXCEPT !.pending_function_calls =
                          [ c \in remaining |-> fc.pending_function_calls[c] ] ]
           /\ IF function_name \notin RegisteredTools THEN
                  /\ llm_out' = Append(llm_out, FunctionCallOutput(call_id, "error"))
                  /\ tasks' = Append(tasks, ToolTask(call_id, "sleep", TRUE, "unknown"))
                  /\ recv_pc' = "tool"
                  /\ UNCHANGED parsed
              ELSE
                  /\ parsed' = Append(parsed, [ call_id |-> call_id,
                                                arguments |-> arguments_str,
                                                given |-> arguments ])
                  /\ IF ~json_loads_ok(arguments_str) THEN
                         /\ llm_out' = Append(llm_out,
                                              FunctionCallOutput(call_id, "error"))
                         /\ tasks' = Append(tasks,
                                ToolTask(call_id, "sleep", TRUE, "invalid_json"))
                         /\ recv_pc' = "tool"
                     ELSE IF fc.non_blocking_tools_calling THEN
                         /\ llm_out' = llm_out \o
                                << FunctionCallOutput(call_id, "executing"),
                                   FunctionCallOutput(call_id, "executing") >>
                         /\ tasks' = Append(tasks,
                                ToolTask(call_id, "running", FALSE, "none"))
                         /\ UNCHANGED recv_pc
                     ELSE
                         /\ tasks' = Append(tasks,
                                ToolTask(call_id, "running", TRUE, "none"))
                         /\ recv_pc' = "tool"
                         /\ UNCHANGED llm_out
    /\ UNCHANGED << input_ended, ed, hs, conv_task2, frames_rx, sm, teardownVars, sessionVars, ap, ah, pump_pc, twilio_out, now, arg_rx,
                    audioHist, inputHist >>

\* OpenAIConnectionManager.send_message: the envelope is written, or
\* RuntimeError is raised when the manager is not connected.
can_send == websocket = "open" /\ is_connected

send_message(out, message) == IF can_send THEN Append(out, message) ELSE out

\* TwilioConnectionManager.send_message, by which every assistant callback
\* writes to the telephony socket: nothing is written for a call that is
\* not in active_connections.
manager_send_message(out, frames) ==
    IF "active_connections" \in registry /\ twilio_ws = "open"
    THEN out \o frames ELSE out

\* The send_text of TwilioConnectionManager.send_message raises on a closed
\* socket, and the manager then calls disconnect(session_id).
send_fails == "active_connections" \in registry /\ twilio_ws = "closed"

\* An assistant callback writes its frames through the manager.
notify(frames) ==
    /\ twilio_out' = manager_send_message(twilio_out, frames)
    /\ cleanup_pc' = IF frames # <<>> /\ send_fails /\ cleanup_pc = "none"
                     THEN "requested" ELSE cleanup_pc

\* on_error is called with the prefix alone.
ErrorMessage_bare(prefix, error) == << prefix >>

\* on_error(f"{prefix}: {error}")
ErrorMessage(prefix, error) == << prefix, ": ", error >>

\* The except of start_message_loop and of receive_message, with
\* _handle_connection_lost: is_connected is cleared, set_state(ERROR), and
\* on_error is called with the error's text.
connection_lost(error) ==
    /\ is_connected' = FALSE
    /\ state' = "error"
    /\ errors' = Append(errors, ErrorMessage("Connection lost", error))
    /\ notify((IF state # "error" THEN << Frame("state_change", "error") >>
               ELSE <<>>)
              \o << Frame("error", ErrorMessage("Connection lost", error)) >>)

NotConnected == "Not connected to OpenAI"

\* What a send_message that cannot write raises: the socket's
\* ConnectionClosed, or RuntimeError when the manager is not connected.
send_error ==
    IF is_connected /\ websocket \in CloseReasons THEN websocket
    ELSE NotConnected

\* The states in which `while self.state in [CONNECTED, LISTENING]` goes on.
InputLoopStates == { "connected", "listening" }

\* The gather of start_conversation has started _audio_input_loop and the
\* loop has not returned.
InputLoopAlive == conv_task \in { "running", "ended" } /\ ~input_ended

\* A turn of _audio_input_loop that always writes the append envelope.
AudioInputLoopLate_unchecked ==
    /\ InputLoopAlive
    /\ state \notin InputLoopStates \/ ~can_send
    /\ ah.input_queue # <<>>
    /\ LET audio_data == Head(ah.input_queue)
       IN  /\ ah' = [ ah EXCEPT !.input_queue = Tail(@) ]
           /\ ap' = track_input_audio(ap, audio_data)
           /\ llm_out' = Append(llm_out,
                  Envelope("input_audio_buffer.append", "",
                           b64encode(audio_data)))
    /\ UNCHANGED << input_ended, ed, hs, conv_task2, frames_rx, sm, teardownVars, sessionVars, recv_pc,
                    pump_pc, twilio_out, now, toolVars, audioHist, inputHist >>

\* A turn of _audio_input_loop that passed the test of its while before
\* the state or the connection changed: receive_audio returns a payload,
\* send_audio_data tracks it and send_message writes it, or raises when
\* the manager is not connected or the socket is closed; the loop's except
\* then calls on_error and the loop returns.
AudioInputLoopLate ==
    /\ InputLoopAlive
    /\ state \notin InputLoopStates \/ ~can_send
    /\ ah.input_queue # <<>>
    /\ LET audio_data == Head(ah.input_queue)
           error == ErrorMessage("Audio input error", send_error)
       IN  /\ ah' = [ ah EXCEPT !.input_queue = Tail(@) ]
           /\ ap' = track_input_audio(ap, audio_data)
           /\ IF can_send
              THEN /\ llm_out' = Append(llm_out,
                          Envelope("input_audio_buffer.append", "",
                                   b64encode(audio_data)))
                   /\ UNCHANGED << input_ended, errors, twilio_out, cleanup_pc >>
              ELSE /\ input_ended' = TRUE
                   /\ errors' = Append(errors, error)
                   /\ notify(<< Frame("error", error) >>)
                   /\ UNCHANGED llm_out
    /\ UNCHANGED << ed, hs, conv_task2, frames_rx, sm, sessionVars, recv_pc, pump_pc, now, toolVars,
                    audioHist, inputHist, websocket, late_recv, disc_pc,
                    n_disc, registry, twilio_ws >>

\* receive_audio times out with nothing queued and the test of the while
\* fails: the loop returns.
AudioInputLoopExit ==
    /\ InputLoopAlive
    /\ state \notin InputLoopStates
    /\ input_ended' = TRUE
    /\ UNCHANGED << ed, hs, conv_task2, frames_rx, sm, teardownVars, sessionVars, recv_pc, ap, ah,
                    pump_pc, twilio_out, llm_out, now, toolVars, audioHist, inputHist >>

\* interrupt_response when the truncate envelope cannot be written:
\* send_message raises, nothing is cleared, and the exception reaches the
\* except of start_message_loop, which ends the receive loop.
SpeechStartedInterruptRaises ==
    /\ recv_pc = "on_speech_started"
    /\ ap.last_assistant_item # NoneItem
    /\ calculate_interrupt_timing(ap, now) > 0
    /\ ~can_send
    /\ LET r == handle_speech_started(ah)
           error == ErrorMessage("Connection lost", send_error)
           frames == (IF state # "error"
                      THEN << Frame("state_change", "error") >> ELSE <<>>)
                     \o << Frame("error", error) >>
       IN  /\ ah' = r.ah
           /\ twilio_out' = manager_send_message(twilio_out \o r.out, frames)
           /\ cleanup_pc' = IF send_fails /\ cleanup_pc = "none"
                            THEN "requested" ELSE cleanup_pc
           /\ errors' = Append(errors, error)
    /\ is_connected' = FALSE
    /\ state' = "error"
    /\ conv_task' = "ended"
    /\ recv_pc' = "idle"
    /\ intr' = [ intr EXCEPT !.phase = "done", !.at = now ]
    /\ UNCHANGED << input_ended, ed, hs, conv_task2, frames_rx, sm, ap, pump_pc, llm_out, now, toolVars, audioHist,
                    n_media, n_speech, n_ticks, websocket, late_recv,
                    disc_pc, n_disc, registry, twilio_ws >>

\* tool.acall ends: with a result (_handle_tool_result up to its sleep),
\* with a result that is a dict of status "executing" (taken for the
\* immediate acknowledgment), with a result json.dumps rejects (the
\* handler's except logs it), or with an exception (_handle_tool_error up
\* to its sleep).  When the manager is not connected send_message raises:
\* _handle_tool_result logs it and returns, _handle_tool_error lets it
\* out, which ends a background task and, for an awaited tool, reaches the
\* except of start_message_loop.
ToolFinish(i, outcome) ==
    /\ tasks[i].pc = "running"
    /\ LET call_id == tasks[i].call_id
           sleeps == outcome \in { "result", "raise" } /\ can_send
           loop_raises == outcome = "raise" /\ ~can_send /\ tasks[i].inline
       IN  /\ llm_out' =
                  IF outcome = "result"
                  THEN send_message(llm_out, FunctionCallOutput(call_id, "result"))
                  ELSE IF outcome = "executing"
                  THEN send_message(llm_out, FunctionCallOutput(call_id, "executing"))
                  ELSE IF outcome = "raise"
                  THEN send_message(llm_out, FunctionCallOutput(call_id, "error"))
                  ELSE llm_out
           /\ tasks' = [ tasks EXCEPT ![i].pc = IF sleeps THEN "sleep" ELSE "done",
                                      ![i].outcome = outcome ]
           /\ recv_pc' = IF tasks[i].inline /\ ~sleeps THEN "idle" ELSE recv_pc
           /\ IF loop_raises
              THEN /\ connection_lost(send_error)
                   /\ conv_task' = "ended"
              ELSE UNCHANGED << sessionVars, twilio_out, errors, cleanup_pc >>
    /\ UNCHANGED << input_ended, ed, hs, conv_task2, frames_rx, sm, websocket, late_recv, disc_pc, n_disc, registry, twilio_ws,
                    ap, ah, pump_pc, now, fc, arg_rx,
                    parsed, audioHist, inputHist >>

\* The sleep ends and the handler returns without writing response.create.
ToolWake_silent(i) ==
    /\ tasks[i].pc = "sleep"
    /\ tasks' = [ tasks EXCEPT ![i].pc = "done" ]
    /\ recv_pc' = IF tasks[i].inline THEN "idle" ELSE recv_pc
    /\ UNCHANGED << input_ended, ed, hs, conv_task2, frames_rx, sm, teardownVars, sessionVars, ap, ah, pump_pc, twilio_out,
                    llm_out, now, fc, arg_rx, parsed, audioHist, inputHist >>

\* After asyncio.sleep(0.1): response.create is written.  A send_message
\* that raises is logged by _handle_tool_result; from _handle_tool_error
\* it ends a background task and, in the receive loop, reaches the except
\* of start_message_loop.
ToolWake(i) ==
    /\ tasks[i].pc = "sleep"
    /\ llm_out' = send_message(llm_out, ResponseCreate(tasks[i].call_id))
    /\ tasks' = [ tasks EXCEPT ![i].pc = "done" ]
    /\ recv_pc' = IF tasks[i].inline THEN "idle" ELSE recv_pc
    /\ IF ~can_send /\ tasks[i].inline /\ tasks[i].outcome \in ErrorOutcomes
       THEN /\ connection_lost(send_error)
            /\ conv_task' = "ended"
       ELSE UNCHANGED << sessionVars, twilio_out, errors, cleanup_pc >>
    /\ UNCHANGED << input_ended, ed, hs, conv_task2, frames_rx, sm, websocket, late_recv, disc_pc, n_disc, registry, twilio_ws,
                    ap, ah, pump_pc, now, fc, arg_rx,
                    parsed, audioHist, inputHist >>

(***************************************************************************)
(* Teardown: RealTimeOpenAiVoiceAssistantV2.disconnect, with               *)
(* cancel_all_tasks, clear_accumulation, clear_pending_calls and the       *)
(* connection manager's disconnect.  The coroutine yields where it awaits  *)
(* the gather of the cancelled tasks and where it awaits the close of the  *)
(* socket, so it is up to three steps.                                     *)
(***************************************************************************)
\* The tasks in FunctionCallProcessor.active_tool_tasks: added by
\* execute_tool, discarded by their done callback.
active_tool_tasks ==
    { i \in 1..Len(tasks) : tasks[i].tracked
                            /\ tasks[i].pc \notin { "done", "cancelled" } }

\* task.cancel() on every task of the set: the task ends at the await it
\* is suspended in.
cancel_tasks(ts) ==
    [ i \in 1..Len(ts) |->
        IF i \in active_tool_tasks THEN [ ts[i] EXCEPT !.pc = "cancelled" ]
        ELSE ts[i] ]

\* active_tool_tasks.clear()
clear_tasks(ts) == [ i \in 1..Len(ts) |-> [ ts[i] EXCEPT !.tracked = FALSE ] ]

\* clear_pending_calls
clear_pending_calls(f) == [ f EXCEPT !.pending_function_calls = << >> ]

\* disconnect() from clear_accumulation on: the accumulations are cleared,
\* is_connected is cleared and, with a socket to close, the coroutine
\* awaits websocket.close(); without one it goes on to
\* set_state(DISCONNECTED) and returns.
disconnect_clear ==
    /\ ap' = clear_accumulation(ap)
    /\ fc' = clear_pending_calls(fc)
    /\ is_connected' = FALSE
    /\ IF websocket # "none"
       THEN /\ websocket' = "closing"
            /\ disc_pc' = "close"
            /\ late_recv' = (late_recv \/ RecvReady)
            /\ UNCHANGED << state, twilio_out, n_disc, cleanup_pc >>
       ELSE /\ state' = "disconnected"
            /\ notify(IF state # "disconnected"
                      THEN << Frame("state_change", "disconnected") >>
                      ELSE <<>>)
            /\ n_disc' = n_disc + 1
            /\ disc_pc' = "idle"
            /\ UNCHANGED << websocket, late_recv >>

\* disconnect() is called: cancel_all_tasks cancels the active tool tasks
\* and awaits their gather; with no active task it does not yield.
DisconnectBegin ==
    /\ disc_pc = "idle"
    /\ n_disc < MaxDisconnects
    /\ IF active_tool_tasks # {}
       THEN /\ tasks' = cancel_tasks(tasks)
            /\ disc_pc' = "gather"
            /\ UNCHANGED << state, is_connected, ap, fc, twilio_out, websocket,
                            late_recv, n_disc, cleanup_pc >>
       ELSE /\ disconnect_clear
            /\ UNCHANGED tasks
    /\ UNCHANGED << input_ended, ed, hs, conv_task2, frames_rx, sm, conv_task, recv_pc, ah, pump_pc, llm_out, now, arg_rx,
                    parsed, audioHist, inputHist, registry, twilio_ws,
                    errors >>

\* The gather of the cancelled tasks returns: the set is cleared, and
\* disconnect() goes on.
DisconnectGathered ==
    /\ disc_pc = "gather"
    /\ tasks' = clear_tasks(tasks)
    /\ disconnect_clear
    /\ UNCHANGED << input_ended, ed, hs, conv_task2, frames_rx, sm, conv_task, recv_pc, ah, pump_pc, llm_out, now, arg_rx,
                    parsed, audioHist, inputHist, registry, twilio_ws,
                    errors >>

\* websocket.close() returns: the socket is dropped, set_state(DISCONNECTED)
\* and disconnect() returns.
DisconnectClosed ==
    /\ disc_pc = "close"
    /\ websocket' = "none"
    /\ state' = "disconnected"
    /\ notify(IF state # "disconnected"
              THEN << Frame("state_change", "disconnected") >> ELSE <<>>)
    /\ n_disc' = n_disc + 1
    /\ disc_pc' = "idle"
    /\ UNCHANGED << input_ended, ed, hs, conv_task2, frames_rx, sm, is_connected, conv_task, recv_pc, ap, ah, pump_pc, llm_out,
                    now, toolVars, audioHist, inputHist, late_recv, registry,
                    twilio_ws, errors >>

\* The recv() that was pending when the socket was closed locally times
\* out (wait_for, 1.0 s): receive_message returns None and the loop ends
\* on `while self.is_connected`.
RecvTimeout ==
    /\ RecvLate
    /\ late_recv' = FALSE
    /\ conv_task' = "ended"
    /\ UNCHANGED << input_ended, ed, hs, conv_task2, frames_rx, sm, state, is_connected, recv_pc, ap, ah, pump_pc, twilio_out,
                    llm_out, now, toolVars, audioHist, inputHist, websocket,
                    closeVars >>

LocalClose == "1000 (OK)"

\* The recv() that was pending when the socket was closed locally raises
\* ConnectionClosed once the closing handshake is over: receive_message
\* calls on_connection_lost.
RecvClosedLocally ==
    /\ RecvLate
    /\ websocket \in { "closing", "none" }
    /\ late_recv' = FALSE
    /\ conv_task' = "ended"
    /\ connection_lost(LocalClose)
    /\ UNCHANGED << input_ended, ed, hs, conv_task2, frames_rx, sm, recv_pc, ap, ah, pump_pc, llm_out, now, toolVars,
                    audioHist, inputHist, websocket, disc_pc, n_disc,
                    registry, twilio_ws >>

(***************************************************************************)
(* Loss of the LLM connection.                                             *)
(***************************************************************************)
\* The LLM peer closes the socket.
PeerClose(reason) ==
    /\ websocket = "open"
    /\ is_connected
    /\ websocket' = reason
    /\ UNCHANGED << input_ended, ed, hs, conv_task2, frames_rx, sm, sessionVars, recv_pc, ap, ah, pump_pc, twilio_out, llm_out,
                    now, toolVars, audioHist, inputHist, late_recv,
                    closeVars >>

\* receive_message: recv() raises ConnectionClosed for the peer's close;
\* is_connected is cleared, on_connection_lost is called and the loop ends.
RecvClosedByPeer ==
    /\ conv_task = "running"
    /\ recv_pc = "idle"
    /\ websocket \in CloseReasons
    /\ is_connected \/ late_recv
    /\ late_recv' = FALSE
    /\ conv_task' = "ended"
    /\ connection_lost(websocket)
    /\ UNCHANGED << input_ended, ed, hs, conv_task2, frames_rx, sm, recv_pc, ap, ah, pump_pc, llm_out, now, toolVars,
                    audioHist, inputHist, websocket, disc_pc, n_disc,
                    registry, twilio_ws >>

\* _keepalive_loop after its sleep: the ping raises on the closed socket;
\* is_connected is cleared, on_connection_lost is called and the loop
\* ends.  A recv() of the receive loop stays pending.
KeepalivePing ==
    /\ is_connected
    /\ websocket \in CloseReasons
    /\ late_recv' = RecvReady
    /\ connection_lost(websocket)
    /\ UNCHANGED << input_ended, ed, hs, conv_task2, frames_rx, sm, conv_task, recv_pc, ap, ah, pump_pc, llm_out, now,
                    toolVars, audioHist, inputHist, websocket, disc_pc,
                    n_disc, registry, twilio_ws >>

(***************************************************************************)
(* connect() step by step (modular_assistant.py, connection_manager.py,    *)
(* session_manager.py): the socket is opened, session.update is written    *)
(* and _wait_for_session_created reads with a one-second deadline.         *)
(***************************************************************************)
SessionTimeout == "Timeout waiting for session.created"
SessionFailed == "Session creation failed: Invalid API key"
ConnectRefusedError == "HTTP 401"

\* connect() returns after set_state(CONNECTED).
connect_returns(m) ==
    /\ state' = "connected"
    /\ notify(<< Frame("state_change", "connected") >>)
    /\ sm' = [ m EXCEPT !.pc = "idle", !.outcome = "connected" ]
    /\ UNCHANGED errors

\* The except of connect(): set_state(ERROR), on_error, and the exception
\* is raised to the caller.  When the session manager raised, its
\* on_session_error (the assistant's _handle_session_error) has set ERROR
\* and called on_error before.
connect_raises(m, session_error, error, outcome) ==
    LET reported ==
            (IF session_error # ""
             THEN << ErrorMessage("Session error", session_error) >> ELSE <<>>)
            \o << ErrorMessage("Connection failed", error) >>
    IN  /\ state' = "error"
        /\ errors' = errors \o reported
        /\ notify(<< Frame("state_change", "error") >>
                  \o [ k \in 1..Len(reported) |-> Frame("error", reported[k]) ])
        /\ sm' = [ m EXCEPT !.pc = "idle", !.outcome = outcome ]

\* connect() is called in state Disconnected: set_state(CONNECTING).
ConnectBegin ==
    /\ state = "disconnected"
    /\ sm.pc = "idle"
    /\ sm.n < MaxConnects
    /\ state' = "connecting"
    /\ notify(<< Frame("state_change", "connecting") >>)
    /\ sm' = [ sm EXCEPT !.pc = "open", !.i = 0, !.elapsed = 0,
                         !.created_rx = FALSE, !.n = @ + 1,
                         !.outcome = "none" ]
    /\ UNCHANGED << input_ended, ed, hs, conv_task2, frames_rx, is_connected, conv_task, recv_pc, ap, ah, pump_pc, llm_out,
                    now, toolVars, audioHist, inputHist, websocket, late_recv,
                    disc_pc, n_disc, registry, twilio_ws, errors >>

\* The socket opened with initialize_session writing nothing.
ConnectOpened_silent ==
    /\ sm.pc = "open"
    /\ websocket' = "open"
    /\ is_connected' = TRUE
    /\ sm' = [ sm EXCEPT !.pc = "wait" ]
    /\ UNCHANGED << input_ended, ed, hs, conv_task2, frames_rx, state, conv_task, recv_pc, ap, ah, pump_pc, twilio_out,
                    llm_out, now, toolVars, audioHist, inputHist, late_recv, closeVars >>

\* websockets.connect returns: is_connected is set, the keepalive task is
\* created, and initialize_session writes session.update.
ConnectOpened ==
    /\ sm.pc = "open"
    /\ websocket' = "open"
    /\ is_connected' = TRUE
    /\ llm_out' = Append(llm_out, Envelope("session.update", "", <<>>))
    /\ sm' = [ sm EXCEPT !.pc = "wait" ]
    /\ UNCHANGED << input_ended, ed, hs, conv_task2, frames_rx, state, conv_task, recv_pc, ap, ah, pump_pc, twilio_out,
                    now, toolVars, audioHist, inputHist, late_recv, closeVars >>

\* websockets.connect raises.
ConnectRefused ==
    /\ sm.pc = "open"
    /\ is_connected' = FALSE
    /\ connect_raises(sm, "", ConnectRefusedError, "refused")
    /\ UNCHANGED << input_ended, ed, hs, conv_task2, frames_rx, conv_task, recv_pc, ap, ah, pump_pc, llm_out, now,
                    toolVars, audioHist, inputHist, websocket, late_recv,
                    disc_pc, n_disc, registry, twilio_ws >>

\* One pass of the for loop of _wait_for_session_created is over without
\* a return: the next pass begins, or the loop is exhausted and the
\* session_created flag decides between a return and the timeout error.
wait_next(m) ==
    LET m1 == [ m EXCEPT !.i = @ + 1 ]
    IN  IF m1.i < SessionCreationTimeoutSecs
        THEN /\ sm' = m1
             /\ UNCHANGED << state, twilio_out, cleanup_pc, errors >>
        ELSE IF ~m1.session_created
        THEN connect_raises(m1, SessionTimeout, SessionTimeout, "timeout")
        ELSE connect_returns(m1)

\* recv() returns a frame within its deadline.
InitMessage(event) ==
    /\ sm.pc = "wait"
    /\ websocket = "open"
    /\ IF event = "session.created"
       THEN connect_returns([ sm EXCEPT !.session_created = TRUE,
                                        !.created_rx = TRUE ])
       ELSE IF event = "error"
       THEN connect_raises(sm, "Invalid API key", SessionFailed, "error")
       ELSE wait_next(sm)
    /\ UNCHANGED << input_ended, ed, hs, conv_task2, frames_rx, is_connected, conv_task, recv_pc, ap, ah, pump_pc, llm_out,
                    now, toolVars, audioHist, inputHist, websocket, late_recv,
                    disc_pc, n_disc, registry, twilio_ws >>

\* The one-second deadline of wait_for passes (asyncio.TimeoutError).
InitTimeout ==
    /\ sm.pc = "wait"
    /\ wait_next([ sm EXCEPT !.elapsed = @ + 1 ])
    /\ UNCHANGED << input_ended, ed, hs, conv_task2, frames_rx, is_connected, conv_task, recv_pc, ap, ah, pump_pc, llm_out,
                    now, toolVars, audioHist, inputHist, websocket, late_recv,
                    disc_pc, n_disc, registry, twilio_ws >>

(***************************************************************************)
(* The telephony leg closes, and the manager's cleanup_session.            *)
(***************************************************************************)
\* The caller hangs up: iter_text ends, handle_message_stream returns and
\* with it the endpoint handle_media_stream.
TwilioClose ==
    /\ twilio_ws = "open"
    /\ twilio_ws' = "closed"
    /\ UNCHANGED << input_ended, ed, hs, conv_task2, frames_rx, sm, sessionVars, recv_pc, ap, ah, pump_pc, twilio_out, llm_out,
                    now, toolVars, audioHist, inputHist, websocket, late_recv,
                    disc_pc, n_disc, registry, errors, cleanup_pc >>

\* TwilioAudioHandler.shutdown: the output task is cancelled and the two
\* queues are emptied.
shutdown(h) == clear_audio_buffer(h)

\* cleanup_session, which TwilioConnectionManager.disconnect calls, up to
\* its call of assistant.disconnect(): the handler is shut down and
\* dropped, the call leaves active_connections.
CleanupShutdown ==
    /\ cleanup_pc = "requested"
    /\ ah' = shutdown(ah)
    /\ pump_pc' = "stopped"
    /\ registry' = registry \ { "audio_handlers", "active_connections" }
    /\ cleanup_pc' = "disconnect"
    /\ UNCHANGED << input_ended, ed, hs, conv_task2, frames_rx, sm, sessionVars, recv_pc, ap, twilio_out, llm_out, now,
                    toolVars, audioHist, inputHist, websocket, late_recv,
                    disc_pc, n_disc, twilio_ws, errors >>

\* cleanup_session awaits assistant.disconnect().
CleanupDisconnect ==
    /\ cleanup_pc = "disconnect"
    /\ \/ n_disc = 0 /\ DisconnectBegin
       \/ DisconnectGathered
       \/ DisconnectClosed

\* assistant.disconnect() has returned: the assistant is dropped.
CleanupFinish ==
    /\ cleanup_pc = "disconnect"
    /\ disc_pc = "idle"
    /\ n_disc >= 1
    /\ registry' = registry \ { "voice_assistants" }
    /\ cleanup_pc' = "done"
    /\ UNCHANGED << input_ended, ed, hs, conv_task2, frames_rx, sm, sessionVars, recv_pc, ap, ah, pump_pc, twilio_out, llm_out,
                    now, toolVars, audioHist, inputHist, websocket, late_recv,
                    disc_pc, n_disc, twilio_ws, errors >>

\* The audio processor under mode changes: deltas, response.done, the
\* window timer and set_audio_streaming_mode.
NextModes ==
    \/ Connect
    \/ TwilioStart
    \/ StartConversation
    \/ \E item_id \in Items, n \in 1..2 : OpenAIAudioDelta(item_id, n)
    \/ ResponseDone
    \/ WindowTimeout
    \/ \E mode \in Modes : SetStreamingMode(mode)

SpecModes == Init /\ [][NextModes]_vars

\* A stream on which the telephony side sends a second start frame.  The
\* messages of the model are handled here by the first task's receive loop.
\* No model audio arrives, so interrupt_response never writes a truncate
\* envelope and the step after that write does not occur.
NextStarts ==
    \/ Connect
    \/ TwilioStart
    \/ StartConversation
    \/ TwilioStartAgain
    \/ StartConversationAgain
    \/ \E n \in 1..2 : TwilioMedia(n)
    \/ AudioInputLoop
    \/ AudioInputLoopAgain
    \/ SpeechStartedRoute
    \/ SpeechStartedInterrupt

SpecStarts == Init /\ [][NextStarts]_vars

\* The output pump with the handler's mark bookkeeping: audio forwarded
\* delta by delta, marks, mark events and the handler's barge-in handling.
MarksDelta ==
    /\ ap.streaming_mode = "individual"
    /\ OpenAIAudioDelta("item_A", 1)

NextMarks ==
    \/ Connect
    \/ TwilioStart
    \/ StartConversation
    \/ MarksDelta
    \/ PumpMedia
    \/ PumpSendMark
    \/ PumpAppendMark
    \/ TwilioMark
    \/ SetResponseTiming("item_A")
    \/ HandlerSpeechStarted
    \/ HandlerSpeechCleared

SpecMarks == Init /\ [][NextMarks]_vars

\* The event dispatcher: handlers are registered while no dispatch runs,
\* then events are dispatched to handlers that return or raise.
RegisterHandler(event_type, handler) ==
    /\ ed.pc = "idle"
    /\ ed.n = 0
    /\ Len(ed.global_handlers) = 0
    /\ Len(ed.handlers["audio_delta"]) + Len(ed.handlers["error"]) < MaxHandlers
    /\ ed' = register_handler(ed, event_type, handler)
    /\ UNCHANGED << input_ended, hs, conv_task2, frames_rx, sm, teardownVars, sessionVars, recv_pc, ap, ah, pump_pc,
                    twilio_out, llm_out, now, toolVars, audioHist, inputHist >>

RegisterGlobalHandler(handler) ==
    /\ ed.pc = "idle"
    /\ ed.n = 0
    /\ Len(ed.global_handlers) < MaxHandlers - 1
    /\ ed' = register_global_handler(ed, handler)
    /\ UNCHANGED << input_ended, hs, conv_task2, frames_rx, sm, teardownVars, sessionVars, recv_pc, ap, ah, pump_pc,
                    twilio_out, llm_out, now, toolVars, audioHist, inputHist >>

DispatchEvent(event_type) ==
    /\ ed.pc = "idle"
    /\ ed.n < MaxDispatches
    /\ ed' = dispatch_begin(ed, event_type)
    /\ UNCHANGED << input_ended, hs, conv_task2, frames_rx, sm, teardownVars, sessionVars, recv_pc, ap, ah, pump_pc,
                    twilio_out, llm_out, now, toolVars, audioHist, inputHist >>

DispatchHandler(raises) ==
    /\ ed.pc # "idle"
    /\ ed' = dispatch_handler(ed, raises)
    /\ UNCHANGED << input_ended, hs, conv_task2, frames_rx, sm, teardownVars, sessionVars, recv_pc, ap, ah, pump_pc,
                    twilio_out, llm_out, now, toolVars, audioHist, inputHist >>

NextDispatch ==
    \/ \E event_type \in EventTypes, handler \in HandlerIds :
           RegisterHandler(event_type, handler)
    \/ \E handler \in HandlerIds : RegisterGlobalHandler(handler)
    \/ \E event_type \in EventTypes : DispatchEvent(event_type)
    \/ \E raises \in BOOLEAN : DispatchHandler(raises)

SpecDispatch == Init /\ [][NextDispatch]_vars

\* The outbound audio path: model deltas to telephony frames.
NextOut ==
    \/ Connect
    \/ TwilioStart
    \/ StartConversation
    \/ \E item_id \in Items, n \in 1..2 : OpenAIAudioDelta(item_id, n)
    \/ ResponseDone
    \/ WindowTimeout
    \/ PumpMedia
    \/ PumpSendMark
    \/ PumpAppendMark

Spec == Init /\ [][NextOut]_vars

\* Both audio paths at once: the two bounded queues under load.
NextQueues ==
    \/ Connect
    \/ TwilioStart
    \/ StartConversation
    \/ \E n \in 1..2 : TwilioMedia(n)
    \/ AudioInputLoop
    \/ \E item_id \in Items, n \in 1..2 : OpenAIAudioDelta(item_id, n)
    \/ PumpMedia
    \/ PumpSendMark
    \/ PumpAppendMark

SpecQueues == Init /\ [][NextQueues]_vars

\* A call with barge-in: model audio, caller audio, time, speech_started.
BargeInMedia == 2
BargeInDeltas == 2

CallerFrame == n_media < BargeInMedia /\ TwilioMedia(2)

ModelDelta == Len(deltas_rx) < BargeInDeltas /\ OpenAIAudioDelta("item_A", 1)

NextBargeIn ==
    \/ Connect
    \/ TwilioStart
    \/ StartConversation
    \/ CallerFrame
    \/ AudioInputLoop
    \/ Tick
    \/ ModelDelta
    \/ ResponseDone
    \/ SpeechStartedRoute
    \/ SpeechStartedInterrupt
    \/ SpeechStartedClear
    \/ PumpMedia
    \/ PumpSendMark
    \/ PumpAppendMark

SpecBargeIn == Init /\ [][NextBargeIn]_vars

\* Barge-in timing alone: what decides the truncate envelope's value, with
\* deltas of either item.
ItemDelta(item_id) ==
    Len(deltas_rx) < BargeInDeltas /\ OpenAIAudioDelta(item_id, 1)

NextTruncate ==
    \/ Connect
    \/ TwilioStart
    \/ StartConversation
    \/ CallerFrame
    \/ AudioInputLoop
    \/ Tick
    \/ \E item_id \in Items : ItemDelta(item_id)
    \/ SpeechStartedRoute
    \/ SpeechStartedInterrupt
    \/ SpeechStartedClear

SpecTruncate == Init /\ [][NextTruncate]_vars

\* Function calls and tool executions.
NextTools ==
    \/ Connect
    \/ TwilioStart
    \/ StartConversation
    \/ \E call_id \in CallIds \cup { NoCallId }, delta \in ArgDeltas,
          name \in { NoName, "lookup" } :
          FunctionCallDelta(call_id, delta, name)
    \/ \E call_id \in CallIds, name \in { NoName, "lookup", "other" },
          arguments \in { << "{", "}" >>, << "{" >> } :
          FunctionCallDone(call_id, name, arguments)
    \/ \E i \in 1..Len(tasks),
          outcome \in { "result", "executing", "unserializable", "raise" } :
          ToolFinish(i, outcome)
    \/ \E i \in 1..Len(tasks) : ToolWake(i)

SpecTools == InitTools /\ [][NextTools]_vars

\* Tool calls while the model streams audio.
ToolCall ==
    \E call_id \in CallIds, name \in { "lookup", "other" } :
        FunctionCallDone(call_id, name, << "{", "}" >>)

NextToolsAudio ==
    \/ Connect
    \/ TwilioStart
    \/ StartConversation
    \/ ToolCall
    \/ \E call_id \in CallIds : FunctionCallDelta(call_id, << "{" >>, NoName)
    \/ \E i \in 1..Len(tasks), outcome \in { "result", "raise" } :
          ToolFinish(i, outcome)
    \/ \E i \in 1..Len(tasks) : ToolWake(i)
    \/ ModelDelta
    \/ ResponseDone
    \/ PumpMedia
    \/ PumpSendMark
    \/ PumpAppendMark

SpecToolsAudio == InitTools /\ [][NextToolsAudio]_vars

\* Teardown while the model streams audio and calls tools.
TeardownDeltas == 1
TeardownCalls == 2

TeardownDelta ==
    Len(deltas_rx) < TeardownDeltas /\ OpenAIAudioDelta("item_A", 1)

TeardownCall ==
    /\ Len(tasks) < TeardownCalls
    /\ \E call_id \in CallIds : FunctionCallDone(call_id, "lookup", << "{", "}" >>)

TeardownArgs ==
    /\ Len(arg_rx) < 1
    /\ FunctionCallDelta("call_1", << "{" >>, "lookup")

Disconnect == DisconnectBegin \/ DisconnectGathered \/ DisconnectClosed

NextTeardown ==
    \/ Connect
    \/ TwilioStart
    \/ StartConversation
    \/ TeardownDelta
    \/ TeardownArgs
    \/ TeardownCall
    \/ \E i \in 1..Len(tasks) : ToolFinish(i, "result")
    \/ \E i \in 1..Len(tasks) : ToolWake(i)
    \/ Disconnect
    \/ RecvTimeout
    \/ RecvClosedLocally

SpecTeardown == Init /\ [][NextTeardown]_vars

\* The LLM peer closes the socket of a session that is connected, or in
\* conversation.
LostDelta == Len(deltas_rx) < TeardownDeltas /\ OpenAIAudioDelta("item_A", 1)

NextLost ==
    \/ Connect
    \/ TwilioStart
    \/ StartConversation
    \/ LostDelta
    \/ OutputPump
    \/ SpeechStartedRoute
    \/ SpeechStartedInterrupt
    \/ \E reason \in CloseReasons : PeerClose(reason)
    \/ RecvClosedByPeer
    \/ KeepalivePing

SpecLost == Init /\ [][NextLost]_vars

\* A call from its media stream to the end of either leg.
SessionConnect == twilio_ws = "open" /\ n_disc = 0 /\ Connect

SessionDelta == Len(deltas_rx) < TeardownDeltas /\ OpenAIAudioDelta("item_A", 1)

\* What the program does of its own accord.
ProgramSession ==
    \/ SessionConnect
    \/ StartConversation
    \/ OutputPump
    \/ RecvClosedByPeer
    \/ KeepalivePing
    \/ RecvTimeout
    \/ RecvClosedLocally
    \/ CleanupShutdown
    \/ CleanupDisconnect
    \/ CleanupFinish

NextSession ==
    \/ SessionConnect
    \/ TwilioStart
    \/ StartConversation
    \/ SessionDelta
    \/ OutputPump
    \/ \E reason \in CloseReasons : PeerClose(reason)
    \/ RecvClosedByPeer
    \/ KeepalivePing
    \/ RecvTimeout
    \/ RecvClosedLocally
    \/ TwilioClose
    \/ CleanupShutdown
    \/ CleanupDisconnect
    \/ CleanupFinish

SpecSession == Init /\ [][NextSession]_vars

\* The telephony read loop: start, media and malformed frames, with the
\* audio input loop behind it.
NextFrames ==
    \/ Connect
    \/ TwilioStart
    \/ StartConversation
    \/ \E payload \in MediaPayloads :
           TwilioMediaFrame(payload, MediaTimestamp(n_media + 1))
    \/ \E text \in InvalidFrames : TwilioInvalidFrame(text)
    \/ AudioInputLoop

SpecFrames == Init /\ [][NextFrames]_vars

\* connect() and disconnect() of one session object, one after the other.
ConnectDisconnect == sm.pc = "idle" /\ Disconnect

NextConnect ==
    \/ ConnectBegin
    \/ ConnectOpened
    \/ ConnectRefused
    \/ \E event \in InitEvents : InitMessage(event)
    \/ InitTimeout
    \/ ConnectDisconnect

SpecConnect == Init /\ [][NextConnect]_vars

\* The LLM socket from its opening on: connect() step by step, also a
\* second connect() after a disconnect(), with the conversation's writers.
\* The telephony read loop begins once connect() has returned.
FirstStart == sm.pc = "idle" /\ sm.outcome = "connected" /\ TwilioStart

\* One reconnect, one caller frame, one delta, one tick and one
\* speech_started are enough for each kind of envelope to be written.
FirstConnect == sm.n < 2 /\ ConnectBegin

FirstEvents == { "session.created", "session.updated" }

FirstMedia == n_media < 1 /\ TwilioMedia(2)

FirstDelta == Len(deltas_rx) < 1 /\ OpenAIAudioDelta("item_A", 1)

FirstTick == n_ticks < 1 /\ Tick

FirstSpeech == n_speech < 1 /\ SpeechStartedRoute

NextFirst ==
    \/ FirstConnect
    \/ ConnectOpened
    \/ ConnectRefused
    \/ \E event \in FirstEvents : InitMessage(event)
    \/ InitTimeout
    \/ ConnectDisconnect
    \/ FirstStart
    \/ StartConversation
    \/ FirstMedia
    \/ AudioInputLoop
    \/ FirstDelta
    \/ FirstTick
    \/ FirstSpeech
    \/ SpeechStartedInterrupt
    \/ SpeechStartedInterruptRaises
    \/ SpeechStartedClear

SpecFirst == Init /\ [][NextFirst]_vars

\* A conversation that ends in an error or a disconnect(): loss of the LLM
\* connection or a local disconnect() while caller audio is forwarded and a
\* speech_started is handled.
\* The assistant is connected once.
ErrorMedia == n_media < 2 /\ TwilioMedia(2)

ErrorDelta == Len(deltas_rx) < 1 /\ OpenAIAudioDelta("item_A", 1)

ErrorTick == n_ticks < 1 /\ Tick

ErrorSpeech == n_speech < 1 /\ SpeechStartedRoute

ErrorDisconnect == n_disc < 1 /\ (DisconnectBegin \/ DisconnectClosed)

NextError ==
    \/ SessionConnect
    \/ TwilioStart
    \/ StartConversation
    \/ ErrorMedia
    \/ AudioInputLoop
    \/ AudioInputLoopLate
    \/ AudioInputLoopExit
    \/ ErrorDelta
    \/ ErrorTick
    \/ ErrorSpeech
    \/ SpeechStartedInterrupt
    \/ SpeechStartedInterruptRaises
    \/ SpeechStartedClear
    \/ PeerClose("1011 (keepalive ping timeout)")
    \/ RecvClosedByPeer
    \/ KeepalivePing
    \/ ErrorDisconnect
    \/ RecvTimeout
    \/ RecvClosedLocally

SpecError == Init /\ [][NextError]_vars

\* The receive loop and the keepalive loop keep running.
SpecLostFair ==
    SpecLost /\ WF_vars(RecvClosedByPeer) /\ WF_vars(KeepalivePing)


(***************************************************************************)
(* What was received and what was delivered, per item.                     *)
(***************************************************************************)
RECURSIVE IsSubseq(_, _)
IsSubseq(s, t) ==
    IF s = <<>> THEN TRUE
    ELSE IF t = <<>> THEN FALSE
    ELSE IF Head(s) = Head(t) THEN IsSubseq(Tail(s), Tail(t))
    ELSE IsSubseq(s, Tail(t))

\* The item of the delta that carried byte b.
ItemOfByte(b) == deltas_rx[(b + 1) \div 2].item

BytesOf(bytes, item_id) == SelectSeq(bytes, LAMBDA b : ItemOfByte(b) = item_id)

\* d1 . d2 . ... for the deltas received for the item, in arrival order.
Received(item_id) ==
    Join([ k \in 1..Len(deltas_rx) |->
             IF deltas_rx[k].item = item_id THEN deltas_rx[k].data ELSE <<>> ])

\* The bytes of the media frames written to the telephony socket, in order.
Delivered ==
    Join([ k \in 1..Len(twilio_out) |->
             IF twilio_out[k].event = "media"
             THEN b64decode(twilio_out[k].payload) ELSE <<>> ])

\* The bytes the audio processor passed to the outbound path, over all flushes.
Forwarded == Join(forwarded)

OnlyItem(item_id) == \A k \in 1..Len(deltas_rx) : deltas_rx[k].item = item_id

\* C2: for every item and every streaming mode, the bytes delivered to the
\* telephony leg for the item are an order-preserving subsequence of the
\* concatenation of its deltas: none out of order, none twice.
C2_OrderPreserved ==
    \A item_id \in Items : IsSubseq(BytesOf(Delivered, item_id), Received(item_id))

\* C3: in Accumulate mode, once response.done has been processed for an
\* item (no barge-in in between), the bytes forwarded for it over all flushes
\* equal the concatenation of the deltas received for it.
C3_FlushExact ==
    ( /\ ap.streaming_mode = "accumulate"
      /\ done_item # NoneItem
      /\ OnlyItem(done_item)
      /\ n_speech = 0 )
    => BytesOf(Forwarded, done_item) = Received(done_item)


(***************************************************************************)
(* The audio queues.                                                       *)
(***************************************************************************)
Count(seq, Test(_)) == Len(SelectSeq(seq, Test))

IsAppend(e) == e.type = "input_audio_buffer.append"
IsMediaFrame(f) == f.event = "media"

\* Caller payloads that were offered to the input queue and are neither in
\* it nor taken from it, and the same for the output queue.
DroppedIn == n_media - Len(ah.input_queue) - Count(llm_out, IsAppend)
DroppedOut == Len(forwarded) - Len(ah.output_queue) - Count(twilio_out, IsMediaFrame)

\* C1: both audio queues hold at most the configured maximum at every
\* state; a payload offered to a full queue (add_input_audio on a media
\* frame, send_audio on a forwarded payload) is dropped and the queue is
\* left as it was, and the handler's step completes.
C1_QueueBound ==
    /\ [](Len(ah.input_queue) <= MaxQueue /\ Len(ah.output_queue) <= MaxQueue)
    /\ [][ /\ (n_media' # n_media /\ Len(ah.input_queue) = MaxQueue)
              => ah'.input_queue = ah.input_queue
           /\ (forwarded' # forwarded /\ Len(ah.output_queue) = MaxQueue)
              => ah'.output_queue = ah.output_queue ]_vars

\* Both queues are full and each has dropped a payload.
C1_Witness ==
    /\ Len(ah.input_queue) = MaxQueue
    /\ Len(ah.output_queue) = MaxQueue
    /\ DroppedIn > 0
    /\ DroppedOut > 0

(***************************************************************************)
(* Barge-in.                                                               *)
(***************************************************************************)
IsTruncate(e) == e.type = "conversation.item.truncate"

TruncatesFor(item_id) ==
    Count(llm_out, LAMBDA e : IsTruncate(e) /\ e.id = item_id)

\* The time the first delta of the item was received.
FirstDeltaTime(item_id) ==
    LET k == CHOOSE k \in 1..Len(deltas_rx) :
                 /\ deltas_rx[k].item = item_id
                 /\ \A j \in 1..(k - 1) : deltas_rx[j].item # item_id
    IN  deltas_rx[k].t

\* A step that completes the handling of a speech_started that arrived
\* while a response item was in flight.
BargeInCompletes ==
    /\ intr.phase = "handling"
    /\ intr'.phase = "done"
    /\ intr.in_flight

\* C4: when speech_started arrives while a response item is in flight
\* (time has elapsed since its first delta and caller audio was tracked in
\* the turn, as in the spec's 120 ms / 200 ms example), the handling writes
\* a truncate envelope naming the item with audio_end_ms =
\* min(elapsed, input duration up to the event); afterwards the accumulator
\* is empty.
C4_TruncateOnBargeIn ==
    [][ ( /\ BargeInCompletes
          /\ intr.input_ms > 0
          /\ intr.start > FirstDeltaTime(intr.item) )
        => /\ \E k \in (intr.ll_before + 1)..Len(llm_out') :
                llm_out'[k] = Envelope("conversation.item.truncate", intr.item,
                                  Min(intr'.at - FirstDeltaTime(intr.item),
                                      intr.input_ms) \div TicksPerMs)
           /\ ap'.current_audio_chunks = <<>>
           /\ ap'.window_chunks = <<>> ]_vars

\* C5: per response item the truncate envelope is emitted exactly once:
\* once a speech_started that arrived during the in-flight item has been
\* handled there is one truncate naming the item, and no item is ever
\* named by two.
C5_TruncateExactlyOnce ==
    /\ \A item_id \in Items : TruncatesFor(item_id) <= 1
    /\ (intr.phase = "done" /\ intr.in_flight) => TruncatesFor(intr.item) = 1

\* C6: every truncate envelope written carries an integer v with
\* 0 <= v <= min(now - responseStartMs, inputDurationMs), responseStartMs
\* being the time the first delta of the truncated item was received and
\* inputDurationMs the input duration at the time of the computation.
C6_TruncateBound ==
    [][ ( /\ Len(llm_out') = Len(llm_out) + 1
          /\ IsTruncate(llm_out'[Len(llm_out')]) )
        => LET e == llm_out'[Len(llm_out')]
           IN  /\ e.val \in Nat
               /\ \E k \in 1..Len(deltas_rx) : deltas_rx[k].item = e.id
               /\ e.val * TicksPerMs <= now - FirstDeltaTime(e.id)
               /\ e.val * TicksPerMs <= ap.total_audio_duration_ms ]_vars

\* A truncate envelope with a positive audio_end_ms has been written.
C6_Witness ==
    \E k \in 1..Len(llm_out) : IsTruncate(llm_out[k]) /\ llm_out[k].val > 0

\* C7: when speech_started is handled while a response is in flight and
\* the stream id is bound, a clear frame is written to the telephony
\* socket, the mark queue is empty afterwards and the handler records no
\* response in progress.
C7_ClearOnBargeIn ==
    [][ (BargeInCompletes /\ ah.stream_sid # NoneSid)
        => /\ \E k \in (intr.tw_before + 1)..Len(twilio_out') :
                twilio_out'[k].event = "clear"
           /\ ah'.mark_queue = <<>>
           /\ ah'.last_assistant_item = NoneItem
           /\ ah'.response_start_timestamp = NoneTime ]_vars

(***************************************************************************)
(* Tool calls.                                                             *)
(***************************************************************************)
\* The envelopes written for a call, in order.
CallEnvelopes(call_id) ==
    SelectSeq(llm_out, LAMBDA e :
        e.id = call_id /\ e.type \in { "function_call_output", "response.create" })

TaskOf(call_id) == tasks[CHOOSE i \in 1..Len(tasks) : tasks[i].call_id = call_id]

\* C8: in non-blocking mode, for a call to a registered tool with valid
\* JSON arguments whose tool has returned a result, the envelopes written
\* for the call_id are exactly: one function_call_output of status
\* "executing", one function_call_output with the result, one
\* response.create.
C8_NonBlockingSequence ==
    \A call_id \in DoneCalls :
        ( /\ fc.non_blocking_tools_calling
          /\ ~TaskOf(call_id).inline
          /\ TaskOf(call_id).outcome = "result"
          /\ TaskOf(call_id).pc = "done" )
        => CallEnvelopes(call_id) = << FunctionCallOutput(call_id, "executing"),
                                       FunctionCallOutput(call_id, "result"),
                                       ResponseCreate(call_id) >>

\* C9: for every tool execution that has finished, with any result value
\* or with an error, the envelopes of its call end with its
\* function_call_output followed by a response.create; and no
\* response.create of a call is written before a function_call_output of
\* that call.
C9_OutputThenResponse ==
    \A call_id \in DoneCalls :
        LET es == CallEnvelopes(call_id)
        IN  /\ ( /\ TaskOf(call_id).pc = "done"
                 /\ TaskOf(call_id).outcome \in
                        { "result", "executing", "unserializable", "raise" } )
               => /\ Len(es) >= 2
                  /\ es[Len(es) - 1].type = "function_call_output"
                  /\ es[Len(es)].type = "response.create"
            /\ \A k \in 1..Len(es) :
                   es[k].type = "response.create"
                   => k > 1 /\ es[k - 1].type = "function_call_output"

\* The deltas received for a call_id, concatenated in arrival order.
DeltasFor(call_id) ==
    Join([ k \in 1..Len(arg_rx) |->
             IF arg_rx[k].call_id = call_id THEN arg_rx[k].delta ELSE <<>> ])

HasDeltas(call_id) == \E k \in 1..Len(arg_rx) : arg_rx[k].call_id = call_id

\* The pending entry of a call_id exists from its first delta until its
\* done, and holds the deltas received so far.
PendingLifecycle ==
    \A call_id \in CallIds :
        /\ call_id \in DOMAIN fc.pending_function_calls
           <=> (HasDeltas(call_id) /\ call_id \notin DoneCalls)
        /\ call_id \in DOMAIN fc.pending_function_calls
           => fc.pending_function_calls[call_id].arguments = DeltasFor(call_id)

\* C10 as stated: for every call_id, the string handed to the JSON parser
\* at done is the concatenation, in arrival order, of the deltas received
\* for that call_id; the pending entry exists from the first delta until
\* done.
C10_ArgumentsReassembled ==
    /\ \A k \in 1..Len(parsed) :
           parsed[k].arguments = DeltasFor(parsed[k].call_id)
    /\ PendingLifecycle

\* C10 amended: that holds for every call_id for which a delta was
\* received; for a call_id without deltas the parser is handed the done
\* event's own arguments.
C10_ReassembledFromDeltas ==
    /\ \A k \in 1..Len(parsed) :
           parsed[k].arguments =
               IF HasDeltas(parsed[k].call_id)
               THEN DeltasFor(parsed[k].call_id)
               ELSE parsed[k].given
    /\ PendingLifecycle

\* The parser was handed {} for a call whose two deltas arrived around a
\* delta of another call.
C10_Witness ==
    /\ \E k \in 1..Len(parsed) :
           /\ parsed[k].call_id = "call_1"
           /\ parsed[k].arguments = << "{", "}" >>
    /\ Len(arg_rx) >= 3
    /\ arg_rx[1] = [ call_id |-> "call_1", delta |-> << "{" >> ]
    /\ arg_rx[2].call_id = "call_2"
    /\ arg_rx[3] = [ call_id |-> "call_1", delta |-> << "}" >> ]
    /\ "call_1" \notin DOMAIN fc.pending_function_calls
    /\ "call_2" \in DOMAIN fc.pending_function_calls

(***************************************************************************)
(* Tool errors.                                                            *)
(***************************************************************************)

IsErrorOutput(e) == e.type = "function_call_output" /\ e.val = "error"

\* C11: an unknown function name, arguments that are not valid JSON, or an
\* exception raised by the tool (awaited or in the background) each give
\* the call_id exactly one function_call_output with an error, written
\* last before the call's response.create; the handling leaves the session
\* state as it was, and afterwards the receive loop is between two
\* messages again.
C11_ToolErrorSurfaced ==
    /\ [](\A call_id \in DoneCalls :
            LET es == CallEnvelopes(call_id)
            IN  ( /\ TaskOf(call_id).pc = "done"
                  /\ TaskOf(call_id).outcome \in ErrorOutcomes )
                => /\ Count(es, IsErrorOutput) = 1
                   /\ Len(es) >= 2
                   /\ IsErrorOutput(es[Len(es) - 1])
                   /\ es[Len(es)] = ResponseCreate(call_id)
                   /\ conv_task = "running")
    /\ [][ (\E i \in 1..Len(tasks') :
               /\ tasks'[i].outcome \in ErrorOutcomes
               /\ (i > Len(tasks) \/ tasks[i] # tasks'[i]))
           => /\ state' = state
              /\ is_connected' = is_connected
              /\ conv_task' = conv_task
              /\ \A i \in 1..Len(tasks) :
                     ( /\ tasks[i].inline
                       /\ tasks[i].pc # "done"
                       /\ tasks'[i].pc = "done" )
                     => recv_pc' = "idle" ]_vars

\* A background tool has raised and arguments of another call did not
\* parse; both calls are dealt with.
C11_Witness ==
    /\ Len(tasks) = 2
    /\ tasks[1].outcome = "raise" /\ ~tasks[1].inline /\ tasks[1].pc = "done"
    /\ tasks[2].outcome = "invalid_json" /\ tasks[2].pc = "done"
    /\ recv_pc = "idle"

(***************************************************************************)
(* Tools and the receive loop.                                             *)
(***************************************************************************)
\* A tool execution is under way in the background.
BackgroundToolRunning ==
    \E i \in 1..Len(tasks) : tasks[i].pc = "running" /\ ~tasks[i].inline

\* C12: in non-blocking mode the receive loop never awaits a tool: no
\* running execution is inline, and while a tool runs in the background
\* the loop is between two messages, ready for the next model event,
\* unless it is writing the error of another call.
C12_ReceiveLoopNotHeld ==
    fc.non_blocking_tools_calling
    => /\ \A i \in 1..Len(tasks) : tasks[i].pc = "running" => ~tasks[i].inline
       /\ ( /\ BackgroundToolRunning
            /\ \A i \in 1..Len(tasks) : tasks[i].inline => tasks[i].pc = "done" )
          => RecvReady

\* While a tool still runs in the background, audio deltas that arrived
\* after it began were processed, response.done flushed them, their media
\* frame was written, and a further function-call delta was accumulated.
C12_Witness ==
    /\ fc.non_blocking_tools_calling
    /\ ap.streaming_mode = "accumulate"
    /\ Len(tasks) = 1
    /\ tasks[1].pc = "running" /\ ~tasks[1].inline
    /\ tasks[1].deltas_before = 0
    /\ Len(deltas_rx) = 2
    /\ Delivered = Received("item_A")
    /\ DOMAIN fc.pending_function_calls # {}

(***************************************************************************)
(* Teardown.                                                               *)
(***************************************************************************)
\* A disconnect() has returned and connect() has not been called since.
Disconnected == n_disc >= 1 /\ disc_pc = "idle" /\ websocket = "none"

TornDown ==
    /\ state = "disconnected"
    /\ ~is_connected
    /\ ap.current_audio_chunks = <<>>
    /\ ap.window_chunks = <<>>
    /\ fc.pending_function_calls = << >>
    /\ active_tool_tasks = {}

\* C13: once disconnect() has returned, and until the next connect(), the
\* state is Disconnected, the accumulator and the window are empty, there
\* are no pending function calls and no active tool tasks and the LLM socket
\* is closed; a further disconnect() then finds nothing to change and no
\* state change to report.
C13_DisconnectIdempotent == Disconnected => TornDown

\* C14: once disconnect() has returned, every tool task that was started
\* has been cancelled or has finished and active_tool_tasks is empty (so
\* that no tool task is left to write a function_call_output or a
\* response.create).
C14_ToolTasksCancelled ==
    Disconnected
    => /\ \A i \in 1..Len(tasks) :
              ~tasks[i].inline => tasks[i].pc \in { "done", "cancelled" }
       /\ active_tool_tasks = {}

(***************************************************************************)
(* Socket writers.  Each kind of frame is written at one place of the      *)
(* program, which fixes the task that writes it.                           *)
(***************************************************************************)
\* The telephony socket: media and mark frames are written by
\* _process_output_audio; the speech_started notification and the clear
\* frame by on_speech_started, which the receive loop awaits; state_change
\* frames by the task set_state creates; error frames by on_error.
TwilioWriter(f) ==
    IF f.event \in { "media", "mark" } THEN "audio_output_pump"
    ELSE IF f.event \in { "speech_started", "clear" } THEN "llm_receive_loop"
    ELSE IF f.event = "state_change" THEN "state_change_task"
    ELSE "on_error"

\* The LLM socket: input_audio_buffer.append is written by
\* _audio_input_loop; the truncate envelope by interrupt_response in the
\* receive loop; the envelopes of a call by the receive loop, or by the
\* background task of the call for its result; session.update by connect()
\* and the initial message by start_conversation.
LlmWriter(e) ==
    IF e.type = "input_audio_buffer.append" THEN "audio_input_loop"
    ELSE IF e.type = "conversation.item.truncate" THEN "llm_receive_loop"
    ELSE IF e.type = "session.update" THEN "connect"
    ELSE IF e.id \notin DoneCalls THEN "start_conversation"
    ELSE IF /\ ~TaskOf(e.id).inline
            /\ e.type = "response.create" \/ e.val = "result"
         THEN "tool_task"
    ELSE "llm_receive_loop"

\* The tasks of a running conversation.
ConversationTasks ==
    { "audio_input_loop", "llm_receive_loop", "tool_task", "audio_output_pump" }

TwilioWriters ==
    { TwilioWriter(twilio_out[k]) : k \in 1..Len(twilio_out) } \cap ConversationTasks

LlmWriters ==
    { LlmWriter(llm_out[k]) : k \in 1..Len(llm_out) } \cap ConversationTasks

\* C15: of the tasks of a running conversation (audio input loop, receive
\* loop with its callbacks, tool tasks, output pump) at most one has written
\* to the LLM socket and at most one to the telephony socket.
C15_SingleWriter ==
    /\ Cardinality(LlmWriters) <= 1
    /\ Cardinality(TwilioWriters) <= 1

(***************************************************************************)
(* One response at a time.                                                 *)
(***************************************************************************)
\* The audio bytes the processor holds.
Retained == Join(ap.current_audio_chunks) \o Join(ap.window_chunks)

\* C16: every byte the audio processor retains (accumulated chunks and
\* window chunks) came with the item that is current_response_id, so that
\* nothing is retained while current_response_id is None and nothing of an
\* earlier item is retained after a delta of a new item.
C16_OneItemRetained ==
    \A k \in 1..Len(Retained) : ItemOfByte(Retained[k]) = ap.current_response_id

(***************************************************************************)
(* Loss of the LLM connection.                                             *)
(***************************************************************************)
Contains(message, text) == \E j \in 1..Len(message) : message[j] = text

ErrorReported(reason) ==
    /\ state = "error"
    /\ \E k \in 1..Len(errors) : Contains(errors[k], reason)

\* C17: when the LLM peer has closed the socket of a session that is
\* Connected or Listening, the session reaches the state Error and on_error
\* has been called with a message that contains the close reason.
C17_PeerCloseSurfaced ==
    \A reason \in CloseReasons :
        (websocket = reason /\ state \in { "connected", "listening" })
        ~> ErrorReported(reason)

\* The receive loop found the close while the session was Listening.
C17_Witness ==
    /\ \E reason \in CloseReasons : websocket = reason /\ ErrorReported(reason)
    /\ conv_task = "ended"
    /\ \E k \in 1..Len(twilio_out) :
           twilio_out[k] = Frame("state_change", "listening")

(***************************************************************************)
(* End of a session.                                                       *)
(***************************************************************************)
\* Nothing is left for the program to do until a frame or a close arrives.
AtRest == ~ENABLED ProgramSession

\* The loss of the LLM connection has been handled.
ConnectionLost ==
    /\ websocket \in CloseReasons
    /\ \E k \in 1..Len(errors) : Contains(errors[k], websocket)

\* C18: once the loss of the LLM connection has been handled and the
\* program has nothing left to do, the output pump has stopped and the
\* telephony socket is closed, no telephony frame being needed for it.
C18_TeardownAfterLoss ==
    (ConnectionLost /\ AtRest) => (pump_pc = "stopped" /\ twilio_ws = "closed")

Destroyed ==
    /\ registry = {}
    /\ state = "disconnected"
    /\ websocket = "none"
    /\ pump_pc = "stopped"

\* C19: once the telephony socket has closed and the program has nothing
\* left to do, the session is destroyed: the assistant is disconnected with
\* its LLM socket closed, the audio handler is shut down and the call is in
\* none of the manager's dictionaries.
C19_SessionDestroyed == (twilio_ws = "closed" /\ AtRest) => Destroyed

(***************************************************************************)
(* Accumulate mode, one response.                                          *)
(***************************************************************************)
MediaFrames == SelectSeq(twilio_out, IsMediaFrame)

\* The item of the first delta received.
FirstItem == deltas_rx[1].item

\* No delta met a cap: every delta received fitted the accumulator.
NoCapBreach ==
    /\ Len(deltas_rx) <= MaxChunksPerResponse
    /\ Len(Received(FirstItem)) <= MaxMemoryBytes

\* Accumulate mode, deltas of one item only, none of them at a cap.
AccumulateOneItem ==
    /\ ap.streaming_mode = "accumulate"
    /\ deltas_rx # <<>>
    /\ OnlyItem(FirstItem)
    /\ NoCapBreach

\* C20: in Accumulate mode with no cap breach, a delta of the item forwards
\* nothing, and while nothing was forwarded no media frame is written; the
\* first response.done after the deltas enqueues exactly one payload, the
\* concatenation of all the deltas, and once the pump has taken it exactly
\* one media frame, carrying its base64 text, has been written; a further
\* response.done forwards nothing and leaves the handler as it was.
C20_AccumulateOneFrame ==
    /\ []( (AccumulateOneItem /\ forwarded = <<>>)
             => (MediaFrames = <<>> /\ ah.output_queue = <<>>) )
    /\ []( ( /\ AccumulateOneItem
             /\ done_item # NoneItem
             /\ Len(forwarded) = 1
             /\ ah.output_queue = <<>> )
             => MediaFrames =
                  << Frame("media", b64encode(Received(FirstItem))) >> )
    /\ [][ AccumulateOneItem' =>
             /\ deltas_rx' # deltas_rx
                  => (forwarded' = forwarded /\ ah' = ah)
             /\ (ResponseDone /\ forwarded = <<>>)
                  => /\ forwarded' = << Received(FirstItem) >>
                     /\ ah'.output_queue = forwarded'
             /\ (ResponseDone /\ done_item # NoneItem)
                  => (forwarded' = forwarded /\ ah' = ah) ]_vars

\* Two deltas were accumulated, response.done was processed, and the pump
\* wrote the one media frame with their three bytes and its mark.
C20_Witness ==
    /\ AccumulateOneItem
    /\ Len(deltas_rx) = 2
    /\ done_item # NoneItem
    /\ forwarded = << Received(FirstItem) >>
    /\ Len(forwarded[1]) = 3
    /\ Len(MediaFrames) = 1
    /\ ah.mark_queue # <<>>

(***************************************************************************)
(* Session initialization.                                                 *)
(***************************************************************************)
\* C21: the session is Connected, and connect() has returned normally, only
\* if session.created was read from the socket that this connect() opened;
\* this holds for every connect(), also one that follows a disconnect().
C21_ConnectedAfterCreated ==
    (state = "connected" \/ sm.outcome = "connected") => sm.created_rx

\* connect() ends in this step without having read session.created: the
\* socket was refused, the provider sent an error, or the wait was exhausted.
ConnectEndsUncreated == sm.pc # "idle" /\ sm'.pc = "idle" /\ ~sm'.created_rx

\* C22: a connect() that ends without session.created (socket not opened,
\* error event during initialization, or session.created timed out) leaves
\* the state Error, has called on_error and raises to its caller; the
\* session is not Connected by that call.
C22_ConnectFailure ==
    [][ ConnectEndsUncreated =>
          /\ state' = "error"
          /\ Len(errors') > Len(errors)
          /\ sm'.outcome \in { "refused", "error", "timeout" } ]_vars

\* C29: initialization fails with the timeout error only when the whole
\* of sessionCreationTimeoutSecs has passed without session.created or
\* error; the other events read meanwhile are skipped and take nothing
\* from that time.
C29_OtherEventsSkipped ==
    sm.outcome = "timeout" => sm.elapsed >= SessionCreationTimeoutSecs

(***************************************************************************)
(* The telephony read loop.                                                *)
(***************************************************************************)
\* C23: reading a telephony frame that is not valid JSON changes neither
\* the handler (stream id, latest media timestamp, the two audio queues,
\* the mark queue) nor the session state, and the read loop goes on: no
\* cleanup is requested, the socket stays open, and a media frame that
\* follows is accepted as before.
C23_InvalidFrameSkipped ==
    /\ [][ InvalidFramesRead' > InvalidFramesRead =>
             /\ ah' = ah
             /\ state' = state
             /\ conv_task' = conv_task
             /\ cleanup_pc' = cleanup_pc
             /\ registry' = registry
             /\ twilio_ws' = "open" ]_vars
    /\ []( ( /\ InvalidFramesRead > 0
             /\ ah.stream_sid # NoneSid
             /\ n_media < MaxMedia )
           => \A payload \in MediaPayloads :
                  ENABLED TwilioMediaFrame(payload, MediaTimestamp(n_media + 1)) )

\* A malformed frame was read after the start frame, and the media frame
\* after it was queued with its timestamp taken over.
C23_Witness ==
    /\ Len(frames_rx) = 2
    /\ ah.stream_sid # NoneSid
    /\ frames_rx[1].event = "invalid"
    /\ frames_rx[2].event = "media"
    /\ frames_rx[2].queued
    /\ ah.input_queue = << b64decode(frames_rx[2].payload) >>
    /\ ah.latest_media_timestamp = 20
    /\ cleanup_pc = "none"

\* The audio fields of the input_audio_buffer.append envelopes, in the
\* order written, and the payloads of the media frames that were queued.
AppendAudio ==
    LET appends == SelectSeq(llm_out, IsAppend)
    IN  [ k \in 1..Len(appends) |-> appends[k].val ]

Accepted ==
    LET queued == SelectSeq(frames_rx, LAMBDA f : f.event = "media" /\ f.queued)
    IN  [ k \in 1..Len(queued) |-> queued[k].payload ]

IsPrefix(s, t) == Len(s) <= Len(t) /\ s = SubSeq(t, 1, Len(s))

\* Base64 text as an encoder writes it: whole quanta, and no data bits in
\* the character before the padding.
Canonical(text) ==
    /\ Len(text) % 4 = 0
    /\ text # <<>> =>
         LET c == Len(text) - 4
         IN  IF text[c + 3] = Pad THEN text[c + 2] % 16 = 0
             ELSE IF text[c + 4] = Pad THEN text[c + 3] % 4 = 0
             ELSE TRUE

\* Every media frame set the timestamp, and every queued payload is either
\* still in the input queue or was written, once and in arrival order.
MediaFramesForwarded ==
    /\ n_media > 0 => ah.latest_media_timestamp = 20 * n_media
    /\ Len(AppendAudio) + Len(ah.input_queue) = Len(Accepted)
    /\ \A k \in 1..Len(ah.input_queue) :
           ah.input_queue[k] = b64decode(Accepted[Len(AppendAudio) + k])

NewItemDelta ==
    /\ Len(deltas_rx') = Len(deltas_rx) + 1
    /\ deltas_rx'[Len(deltas_rx')].item # ap.last_assistant_item

\* C25: when a delta of a new item arrives while audio of the previous
\* response is retained (accumulated chunks or window chunks), that audio
\* is passed to the outbound path before the state is reset: the next
\* payload forwarded is the retained audio.
C25_FlushBeforeNewItem ==
    [][ (NewItemDelta /\ Retained # <<>>) =>
          /\ Len(forwarded') > Len(forwarded)
          /\ forwarded'[Len(forwarded) + 1] = Retained ]_vars

\* This step handles a delta of the current item, in Accumulate mode, that
\* does not fit: the memory cap would be exceeded or the chunk count is
\* at its maximum.
BreachingDelta ==
    /\ ap.streaming_mode = "accumulate"
    /\ Len(deltas_rx') = Len(deltas_rx) + 1
    /\ LET d == deltas_rx'[Len(deltas_rx')]
       IN  /\ d.item = ap.last_assistant_item
           /\ \/ ap.current_audio_size + Len(d.data) > MaxMemoryBytes
              \/ Len(ap.current_audio_chunks) >= MaxChunksPerResponse

\* C26: in Accumulate mode a delta that does not fit has the retained
\* audio flushed as one payload, the accumulator reset, and accumulation
\* resumed with that delta; the accumulator never exceeds either cap.
C26_EarlyFlushResumes ==
    /\ []( /\ ap.current_audio_size <= MaxMemoryBytes
           /\ Len(ap.current_audio_chunks) <= MaxChunksPerResponse )
    /\ [][ BreachingDelta =>
             /\ forwarded' = Append(forwarded, Join(ap.current_audio_chunks))
             /\ ap'.current_audio_chunks = << deltas_rx'[Len(deltas_rx')].data >>
             /\ ap'.current_audio_size = Len(deltas_rx'[Len(deltas_rx')].data) ]_vars

\* C27: in Windowed mode a non-empty window has an armed timer, also after
\* set_streaming_mode; a delta that fills the window or reaches the
\* immediate threshold leaves the window empty, and after a flush the
\* window is empty with no timer armed.
WindowHasTimer ==
    (ap.streaming_mode = "windowed" /\ ap.window_chunks # <<>>)
        => ap.window_timer_task

WindowedDelta ==
    /\ ap.streaming_mode = "windowed"
    /\ Len(deltas_rx') = Len(deltas_rx) + 1

ImmediateFlush ==
    WindowedDelta =>
        LET d == deltas_rx'[Len(deltas_rx')]
            held == IF d.item # ap.last_assistant_item THEN 0
                    ELSE Len(ap.window_chunks)
        IN  (\/ held + 1 >= WindowSizeChunks
             \/ Len(d.data) >= ImmediateThresholdBytes)
                => /\ ap'.window_chunks = <<>>
                   /\ Len(forwarded') = Len(forwarded) + 1

FlushEmptiesWindow ==
    (ap.streaming_mode = "windowed" /\ Len(forwarded') > Len(forwarded))
        => ap'.window_chunks = <<>> /\ ~ap'.window_timer_task

C27_WindowFlushed ==
    /\ []WindowHasTimer
    /\ [][ImmediateFlush /\ FlushEmptiesWindow]_vars

\* This step begins the processing of a speech_started event.
SpeechStartedBegins == n_speech' = n_speech + 1

\* A truncate envelope was written for the speech_started being (or last)
\* handled although no response was in flight when it arrived.
TruncateWithoutResponse == intr.sent /\ ~intr.in_flight

\* C28: processing speech_started moves the session to Listening and sets
\* the input-duration accumulator to 0; when no response is in flight no
\* conversation.item.truncate envelope is written.
C28_SpeechStartedIdle ==
    /\ [][ SpeechStartedBegins =>
             /\ state' = "listening"
             /\ ap'.total_audio_duration_ms = 0 ]_vars
    /\ []~TruncateWithoutResponse

\* The start_conversation tasks that are in their two loops: each has a
\* receive loop on the LLM socket and an audio input loop on the inbound
\* queue.
ConversationsRunning ==
    (IF conv_task = "running" THEN 1 ELSE 0)
        + (IF conv_task2 = "running" THEN 1 ELSE 0)

SocketReaders == IF is_connected THEN ConversationsRunning ELSE 0

InputLoops ==
    IF state \in { "connected", "listening" } THEN ConversationsRunning ELSE 0

\* C30: whatever frames the telephony side sends, a second start frame
\* included, at most one task reads the LLM socket and at most one audio
\* input loop takes from the inbound queue.
C30_OneReaderOneInputLoop == SocketReaders <= 1 /\ InputLoops <= 1

\* The envelopes this step writes on the LLM socket.
Written == SubSeq(llm_out', Len(llm_out) + 1, Len(llm_out'))

\* C31: on the LLM socket session.update is the first envelope written:
\* the step that opens a connection writes session.update, and an append,
\* item create, truncate or response.create is written only on a
\* connection that is already open, after its session.update.
C31_SessionUpdateFirst ==
    /\ [](llm_out # <<>> => llm_out[1].type = "session.update")
    /\ [][ /\ (~is_connected /\ is_connected')
                => Written = << Envelope("session.update", "", <<>>) >>
           /\ (\E k \in 1..Len(Written) : Written[k].type # "session.update")
                => /\ is_connected
                   /\ \E j \in 1..Len(llm_out) :
                          llm_out[j].type = "session.update" ]_vars

C31_Witness ==
    /\ sm.n = 2
    /\ state = "connected"
    /\ Len(SelectSeq(llm_out, LAMBDA e : e.type = "session.update")) = 2
    /\ \E k \in 1..Len(llm_out) : llm_out[k].type = "input_audio_buffer.append"
    /\ \E k \in 1..Len(llm_out) : llm_out[k].type = "response.create"
    /\ llm_out[Len(llm_out)].type = "conversation.item.truncate"

\* This step is clear_audio_buffer completing (called by
\* interrupt_response after the truncate envelope).
ClearBuffersCompletes == recv_pc = "truncate_sent" /\ recv_pc' = "idle"

\* A clear frame was written on the telephony socket since the
\* speech_started being handled arrived.
ClearFrameWritten ==
    \E k \in (intr.tw_before + 1)..Len(twilio_out') :
        twilio_out'[k].event = "clear"

\* C32: when clear_audio_buffer has completed, the inbound queue, the
\* outbound queue and the mark queue are empty and a clear frame has been
\* written to the telephony socket.
C32_ClearBuffers ==
    [][ ClearBuffersCompletes =>
          /\ ah'.input_queue = <<>>
          /\ ah'.output_queue = <<>>
          /\ ah'.mark_queue = <<>>
          /\ ClearFrameWritten ]_vars

\* This step is the handler's barge-in handling emptying the mark queue.
MarkQueueEmptied == hs.pc = "clear_sent" /\ hs'.pc = "idle"

FramesOut(event) == Len(SelectSeq(twilio_out, LAMBDA f : f.event = event))

\* C34: every media frame the output pump has written is followed by one
\* mark frame, and at every point the mark queue holds as many entries as
\* marks were sent since the last clear less the mark events that found an
\* entry to remove.
C34_MarkQueueCounts ==
    /\ pump_pc = "get" => FramesOut("mark") = FramesOut("media")
    /\ pump_pc = "mark" => FramesOut("mark") + 1 = FramesOut("media")
    /\ Len(ah.mark_queue) = MarksSent - hs.popped

\* C35: dispatch_event invokes the handlers registered for the type in
\* registration order, then the global handlers in registration order; a
\* handler's exception does not leave dispatch_event and the handlers
\* after it are still invoked.
C35_DispatchAll ==
    /\ ~ed.propagated
    /\ Len(ed.log) <= Len(ed.expected)
    /\ \A k \in 1..Len(ed.log) : ed.log[k] = ed.expected[k]
    /\ (ed.pc = "idle" /\ ed.n > 0) => ed.log = ed.expected
    /\ (ed.n > 0 /\ ed.event # "none")
           => ed.expected = ed.handlers[ed.event] \o ed.global_handlers

\* A dispatch is over in which the first handler of the type raised and a
\* further handler of the type and two global handlers were invoked.
C35_Witness ==
    /\ ed.pc = "idle"
    /\ ed.n = MaxDispatches
    /\ ed.raised >= 2
    /\ ed.event = "error"
    /\ Len(ed.handlers["error"]) = 2
    /\ Len(ed.handlers["audio_delta"]) = 1
    /\ Len(ed.global_handlers) = 2
    /\ ed.log = ed.handlers["error"] \o ed.global_handlers
    /\ ed.log[1] # ed.log[2]

\* g711 mu-law at 8 kHz, the input format create_twilio_voice_assistant
\* configures: one byte per sample, eight samples per millisecond.
InputBytesPerMs == 8

\* This step forwards one input payload to the LLM.
InputForwarded ==
    /\ Len(llm_out') = Len(llm_out) + 1
    /\ llm_out'[Len(llm_out')].type = "input_audio_buffer.append"

\* C36: each input payload of n bytes forwarded to the LLM adds the
\* playback duration of n bytes at the session's input format (n/8 ms for
\* g711 mu-law at 8 kHz) to the input duration, which only speech_started
\* resets to 0.
C36_InputDuration ==
    [][ /\ InputForwarded =>
            InputBytesPerMs
                * (ap'.total_audio_duration_ms - ap.total_audio_duration_ms)
              = Len(b64decode(llm_out'[Len(llm_out')].val)) * TicksPerMs
        /\ ap'.total_audio_duration_ms < ap.total_audio_duration_ms
              => /\ n_speech' = n_speech + 1
                 /\ ap'.total_audio_duration_ms = 0 ]_vars

\* C37: once the state is Error no step moves it to a state other than
\* Disconnected, and to Disconnected only a disconnect() that returns.
C37_ErrorAbsorbing ==
    [][ state = "error" =>
          \/ state' = "error"
          \/ state' = "disconnected" /\ n_disc' = n_disc + 1 ]_vars

\* The connection was lost while a speech_started was being handled, and
\* the handling has since gone on to its end in state Error.
C37_Witness ==
    /\ state = "error"
    /\ intr.phase = "done"
    /\ recv_pc = "idle"
    /\ conv_task = "running"
    /\ \E k \in 1..Len(twilio_out) :
          /\ twilio_out[k].event = "state_change"
          /\ twilio_out[k].payload = "error"
          /\ \E j \in 1..(k - 1) : twilio_out[j].event = "speech_started"

InterruptedItems ==
    { llm_out[j].id : j \in { i \in (intr.ll_before + 1)..Len(llm_out) :
                                llm_out[i].type = "conversation.item.truncate" } }

\* The deltas of the interrupted item received after the barge-in that
\* truncated it.
StaleDeltas ==
    { k \in (intr.deltas_before + 1)..Len(deltas_rx) :
        /\ intr.sent
        /\ intr.phase = "done"
        /\ deltas_rx[k].item \in InterruptedItems }

\* C39: no byte of a delta of the interrupted item that arrived after the
\* barge-in is passed to the telephony handler, neither when the delta is
\* handled nor when response.done is.
C39_StaleAudioDropped ==
    \A k \in StaleDeltas :
        \A i \in 1..Len(forwarded) :
            \A b \in 1..Len(forwarded[i]) :
                \A c \in 1..Len(deltas_rx[k].data) :
                    forwarded[i][b] # deltas_rx[k].data[c]

\* response.done has been handled for an item whose deltas are all the
\* deltas received so far and stay within the caps of Accumulate mode.
ResponseDoneProcessed ==
    /\ done_item # NoneItem
    /\ \A k \in 1..Len(deltas_rx) : deltas_rx[k].item = done_item
    /\ Len(deltas_rx) <= MaxChunksPerResponse
    /\ Len(Received(done_item)) <= MaxMemoryBytes

\* C40: whatever calls of set_streaming_mode fell between the deltas of a
\* response, once response.done has been handled the audio passed to the
\* outbound path is the audio of the deltas received, each once and in
\* arrival order.
C40_ModeChangeLosesNothing ==
    ResponseDoneProcessed => Join(forwarded) = Received(done_item)

====
